---- MODULE Spec2Model ----
(***************************************************************************)
(* Model of the fundsforngos grant scraper (src/fundsforngos_scraper.py).  *)
(*                                                                         *)
(* Texts are sequences of one-character strings.  The regular expressions  *)
(* of extract_amount are kept as pattern trees and matched by a            *)
(* backtracking matcher that returns the alternatives in the order         *)
(* Python's re module tries them, so a search yields the match re.search   *)
(* yields.                                                                 *)
(*                                                                         *)
(* Specifications:                                                         *)
(*   Spec        the script as it is written: load, page loop, handler of  *)
(*               each article, save.                                       *)
(*   SpecStages  the same script with ProcessListed in the place of        *)
(*               ProcessArticle: the candidate carries the title and the   *)
(*               link of its listing, so that the handler goes on from the *)
(*               detail fetch to the deadline, validation and              *)
(*               deduplication blocks, which it never reaches in Spec.     *)
(*   SpecAmount  one call of extract_amount on a text built from Pieces.   *)
(*   SpecOrg     one resolution of a candidate's organization: a return of *)
(*               extract_organization and the cleaning that follows it.    *)
(*   SpecSave    the clean-up and the write of the file at the end of the  *)
(*               script, on records read from the file.                    *)
(*   SpecEligibility  one extraction of the eligibility summary from the   *)
(*               text of a detail page.                                    *)
(*   SpecDate    calls of parse_date, step by step, with the LC_TIME       *)
(*               locale of the process.                                    *)
(***************************************************************************)
EXTENDS Integers, Sequences, FiniteSets, TLC

VARIABLES
    text,                 \* extract_amount: the argument of the call
    result,               \* extract_amount: what the call produced
    store,                \* the file at output_path
    grants,               \* grants (the same list object as existing_grants)
    existing_grant_urls,  \* the known-identity set
    processed_urls,       \* the per-run processed set
    page,                 \* the page of range(1, 11) being scanned
    remaining,            \* articles of the current page not yet examined
    page_has_valid_grants,
    defined,              \* clean_text and clean_amount_value are bound
    pc,                   \* position of the script
    last,                 \* the last listing examined and how its handler ended
    page_dated,           \* a listing of the current page has a deadline
                          \* after the cutoff
    page_accepted,        \* a listing of the current page was appended
    checked,              \* per final URL: the candidates that came to the
                          \* deduplication check in this run (two stands for
                          \* two or more)
    lc_time,              \* the LC_TIME locale of the process
    original_locale,      \* parse_date: original_locale
    lc_before,            \* the LC_TIME locale when parse_date was called
    calls,                \* the calls of parse_date so far
    collection,           \* update_mongodb: the documents of the collection
    existing_titles,      \* update_mongodb: existing_titles
    title_chars           \* the characters of the title "title"

vars == <<text, result, store, grants, existing_grant_urls, processed_urls,
          page, remaining, page_has_valid_grants, defined, pc, last,
          page_dated, page_accepted, checked, lc_time, original_locale,
          lc_before, calls, collection, existing_titles, title_chars>>

\* the state of update_mongodb, and the characters of a title
sideVars == <<collection, existing_titles, title_chars>>

\* the locale of the process and what parse_date keeps of it
localeVars == <<lc_time, original_locale, lc_before, calls>>

runVars == <<store, grants, existing_grant_urls, processed_urls, page,
             remaining, page_has_valid_grants, defined, pc, last,
             page_dated, page_accepted, checked, localeVars, sideVars>>

amountVars == <<text, result>>

----------------------------------------------------------------------------
(* Characters *)

LowerSeq == <<"a","b","c","d","e","f","g","h","i","j","k","l","m",
              "n","o","p","q","r","s","t","u","v","w","x","y","z">>

UpperSeq == <<"A","B","C","D","E","F","G","H","I","J","K","L","M",
              "N","O","P","Q","R","S","T","U","V","W","X","Y","Z">>

DigitSeq == <<"0","1","2","3","4","5","6","7","8","9">>

Letters == {LowerSeq[i] : i \in 1..26} \cup {UpperSeq[i] : i \in 1..26}

DigitChars == {DigitSeq[i] : i \in 1..10}

\* \w of the re module, for the characters of the model
WordChars == Letters \cup DigitChars \cup {"_"}

\* \s of the re module, for the characters of the model
SpaceChars == {" "}

\* str.lower() of one character
LowerChar(c) ==
    IF \E i \in 1..26 : UpperSeq[i] = c
    THEN LowerSeq[CHOOSE i \in 1..26 : UpperSeq[i] = c]
    ELSE c

\* str.upper() of one character
UpperChar(c) ==
    IF \E i \in 1..26 : LowerSeq[i] = c
    THEN UpperSeq[CHOOSE i \in 1..26 : LowerSeq[i] = c]
    ELSE c

\* str.lower()
Lower(s) == [i \in 1..Len(s) |-> LowerChar(s[i])]

DigitVal(c) == (CHOOSE i \in 1..10 : DigitSeq[i] = c) - 1

----------------------------------------------------------------------------
(* Pattern trees *)

CharSet(cs) == [k |-> "set", cs |-> cs]
Lit(str) == [k |-> "lit", str |-> str]
Cat(rs) == [k |-> "seq", rs |-> rs]
Alt(rs) == [k |-> "alt", rs |-> rs]
Rep(r, lo, hi) == [k |-> "rep", r |-> r, lo |-> lo, hi |-> hi]
\* a repetition that takes as little as it can (+?)
Lazy(r, lo, hi) == [k |-> "lazy", r |-> r, lo |-> lo, hi |-> hi]
Grp(n, r) == [k |-> "grp", n |-> n, r |-> r]
WordB == [k |-> "wb"]
\* ^ with re.MULTILINE
LineStart == [k |-> "bol"]

\* the upper limit standing for an unbounded repetition: no text is longer
Many == 64

Opt(r) == Rep(r, 0, 1)
Star(r) == Rep(r, 0, Many)

\* a group that took no part in the match: m.group(n) is None
NoCap == <<0, 0>>

\* \b at position p (between s[p-1] and s[p])
AtWordBoundary(s, p) ==
    LET before == p > 1 /\ s[p - 1] \in WordChars
        after == p <= Len(s) /\ s[p] \in WordChars
    IN before # after

RECURSIVE MatchAt(_, _, _, _), StepAll(_, _, _, _, _), MatchCat(_, _, _, _, _),
          MatchAlt(_, _, _, _, _), MatchRep(_, _, _, _, _, _),
          RepAll(_, _, _, _, _, _, _), MatchLazy(_, _, _, _, _, _),
          LazyAll(_, _, _, _, _, _, _)

\* the match states after r, tried at match state m, in backtracking order
MatchAt(r, s, m, ic) ==
    CASE r.k = "set" ->
            IF m.pos <= Len(s)
               /\ (\/ s[m.pos] \in r.cs
                   \/ ic /\ LowerChar(s[m.pos]) \in r.cs
                   \/ ic /\ UpperChar(s[m.pos]) \in r.cs)
            THEN <<[m EXCEPT !.pos = @ + 1]>>
            ELSE <<>>
      [] r.k = "lit" ->
            LET n == Len(r.str)
            IN IF m.pos + n - 1 <= Len(s)
                  /\ \A i \in 1..n :
                        IF ic
                        THEN LowerChar(s[m.pos + i - 1]) = LowerChar(r.str[i])
                        ELSE s[m.pos + i - 1] = r.str[i]
               THEN <<[m EXCEPT !.pos = @ + n]>>
               ELSE <<>>
      [] r.k = "wb" -> IF AtWordBoundary(s, m.pos) THEN <<m>> ELSE <<>>
      [] r.k = "bol" -> IF m.pos = 1 \/ s[m.pos - 1] = "\n" THEN <<m>> ELSE <<>>
      [] r.k = "grp" ->
            LET ms == MatchAt(r.r, s, m, ic)
            IN [j \in 1..Len(ms) |->
                   [ms[j] EXCEPT !.caps[r.n] = <<m.pos, ms[j].pos>>]]
      [] r.k = "seq" -> MatchCat(r.rs, 1, s, <<m>>, ic)
      [] r.k = "alt" -> MatchAlt(r.rs, 1, s, m, ic)
      [] r.k = "rep" -> MatchRep(r.r, r.lo, r.hi, s, m, ic)
      [] r.k = "lazy" -> MatchLazy(r.r, r.lo, r.hi, s, m, ic)

StepAll(r, s, ms, j, ic) ==
    IF j > Len(ms) THEN <<>>
    ELSE MatchAt(r, s, ms[j], ic) \o StepAll(r, s, ms, j + 1, ic)

MatchCat(rs, i, s, ms, ic) ==
    IF i > Len(rs) \/ ms = <<>> THEN ms
    ELSE MatchCat(rs, i + 1, s, StepAll(rs[i], s, ms, 1, ic), ic)

MatchAlt(rs, i, s, m, ic) ==
    IF i > Len(rs) THEN <<>>
    ELSE MatchAt(rs[i], s, m, ic) \o MatchAlt(rs, i + 1, s, m, ic)

\* greedy repetition: one more round first, stopping here last
MatchRep(r, lo, hi, s, m, ic) ==
    IF hi = 0 THEN <<m>>
    ELSE LET once == MatchAt(r, s, m, ic)
             nlo == IF lo > 0 THEN lo - 1 ELSE 0
         IN RepAll(r, nlo, hi - 1, s, once, 1, ic)
            \o (IF lo = 0 THEN <<m>> ELSE <<>>)

RepAll(r, lo, hi, s, ms, j, ic) ==
    IF j > Len(ms) THEN <<>>
    ELSE MatchRep(r, lo, hi, s, ms[j], ic) \o RepAll(r, lo, hi, s, ms, j + 1, ic)

\* lazy repetition: stopping here first, one more round last
MatchLazy(r, lo, hi, s, m, ic) ==
    IF hi = 0 THEN <<m>>
    ELSE (IF lo = 0 THEN <<m>> ELSE <<>>)
         \o LazyAll(r, IF lo > 0 THEN lo - 1 ELSE 0, hi - 1, s,
                    MatchAt(r, s, m, ic), 1, ic)

LazyAll(r, lo, hi, s, ms, j, ic) ==
    IF j > Len(ms) THEN <<>>
    ELSE MatchLazy(r, lo, hi, s, ms[j], ic) \o LazyAll(r, lo, hi, s, ms, j + 1, ic)

RECURSIVE NumGroups(_), NumGroupsAll(_, _)

\* the length of match.groups()
NumGroups(r) ==
    CASE r.k = "grp" -> 1 + NumGroups(r.r)
      [] r.k \in {"rep", "lazy"} -> NumGroups(r.r)
      [] r.k \in {"seq", "alt"} -> NumGroupsAll(r.rs, 1)
      [] OTHER -> 0

NumGroupsAll(rs, i) ==
    IF i > Len(rs) THEN 0 ELSE NumGroups(rs[i]) + NumGroupsAll(rs, i + 1)

NoMatch == [found |-> FALSE, start |-> 0, pos |-> 0, caps |-> <<>>]

\* pattern.match at position i
FirstMatch(ms, i) ==
    IF ms = <<>> THEN NoMatch
    ELSE [found |-> TRUE, start |-> i, pos |-> ms[1].pos, caps |-> ms[1].caps]

\* pattern.match(s, i): the first match state in backtracking order
MatchFrom(r, s, i, ic) ==
    FirstMatch(MatchAt(r, s, [pos |-> i, caps |-> [g \in 1..NumGroups(r) |-> NoCap]], ic), i)

RECURSIVE SearchFrom(_, _, _, _), SearchOn(_, _, _, _, _)

\* pattern.search(s, i): the leftmost match
SearchFrom(r, s, i, ic) ==
    IF i > Len(s) + 1 THEN NoMatch
    ELSE SearchOn(MatchFrom(r, s, i, ic), r, s, i, ic)

SearchOn(m, r, s, i, ic) == IF m.found THEN m ELSE SearchFrom(r, s, i + 1, ic)

Search(r, s, ic) == SearchFrom(r, s, 1, ic)

RECURSIVE FindIterFrom(_, _, _, _), FindIterOn(_, _, _, _)

\* pattern.finditer(s): the non-overlapping matches, left to right
FindIterFrom(r, s, i, ic) == FindIterOn(SearchFrom(r, s, i, ic), r, s, ic)

FindIterOn(m, r, s, ic) ==
    IF ~m.found THEN <<>>
    ELSE <<m>> \o FindIterFrom(r, s, IF m.pos > m.start THEN m.pos ELSE m.pos + 1, ic)

FindIter(r, s, ic) == FindIterFrom(r, s, 1, ic)

\* m.group(n) of a group that took part
GroupText(s, m, n) == SubSeq(s, m.caps[n][1], m.caps[n][2] - 1)

HasGroup(m, n) == m.caps[n] # NoCap

\* m.group(0)
MatchText(s, m) == SubSeq(s, m.start, m.pos - 1)

----------------------------------------------------------------------------
(* extract_amount *)

Digit == CharSet(DigitChars)
Space == CharSet(SpaceChars)

currency_symbols_nc == CharSet({"$", "€", "£"})

currency_codes_nc ==
    Alt(<<Lit(<<"U","S","D">>), Lit(<<"E","U","R">>), Lit(<<"G","B","P">>)>>)

\* \d{1,3}(?:,\d{3})*(?:\.\d{1,2})?
number_pattern_nc ==
    Cat(<<Rep(Digit, 1, 3),
          Star(Cat(<<Lit(<<",">>), Rep(Digit, 3, 3)>>)),
          Opt(Cat(<<Lit(<<".">>), Rep(Digit, 1, 2)>>))>>)

\* ([$€£]|USD|EUR|GBP) as group n
currency_capture(n) == Grp(n, Alt(<<currency_symbols_nc, currency_codes_nc>>))

number_capture(n) == Grp(n, number_pattern_nc)

\* (\s*(?:k|thousand|million)\b) as group n: the group takes the white space
multiplier_capture(n) ==
    Grp(n, Cat(<<Star(Space),
                 Alt(<<Lit(<<"k">>),
                       Lit(<<"t","h","o","u","s","a","n","d">>),
                       Lit(<<"m","i","l","l","i","o","n">>)>>),
                 WordB>>))

\* \b(0?\d{1,3})\s*-\s*(\d{1,3})\b
mangled_range_pattern ==
    Cat(<<WordB,
          Grp(1, Cat(<<Opt(Lit(<<"0">>)), Rep(Digit, 1, 3)>>)),
          Star(Space), Lit(<<"-">>), Star(Space),
          Grp(2, Rep(Digit, 1, 3)),
          WordB>>)

standard_range_pattern ==
    Cat(<<Opt(currency_capture(1)), Star(Space), number_capture(2),
          Opt(Cat(<<Star(Space), multiplier_capture(3)>>)),
          Star(Space), Alt(<<Lit(<<"-">>), Lit(<<"t","o">>)>>), Star(Space),
          Opt(currency_capture(4)), Star(Space), number_capture(5),
          Opt(Cat(<<Star(Space), multiplier_capture(6)>>))>>)

upto_pattern ==
    Cat(<<Alt(<<Lit(<<"u","p"," ","t","o">>),
                Lit(<<"m","a","x","i","m","u","m"," ","o","f">>),
                Lit(<<"u","p","t","o">>)>>),
          Rep(Space, 1, Many),
          Opt(currency_capture(1)), Star(Space), number_capture(2),
          Opt(multiplier_capture(3)), Star(Space), Opt(currency_capture(4))>>)

strict_single_pattern ==
    Cat(<<Alt(<<Cat(<<Lit(<<"g","r","a","n","t">>), Opt(Lit(<<"s">>)),
                      Lit(<<" ","o","f">>)>>),
                Lit(<<"p","r","i","z","e"," ","o","f">>),
                Lit(<<"a","w","a","r","d"," ","o","f">>),
                Lit(<<"f","u","n","d","i","n","g"," ","o","f">>),
                Lit(<<"a","m","o","u","n","t",":">>)>>),
          Star(Space), Opt(currency_capture(1)), Star(Space), number_capture(2),
          Star(Space), Opt(multiplier_capture(3)), Star(Space),
          Opt(currency_capture(4))>>)

code_single_pattern ==
    Cat(<<Grp(1, currency_codes_nc), Star(Space), number_capture(2),
          Star(Space), Opt(multiplier_capture(3))>>)

symbol_single_pattern ==
    Cat(<<Grp(1, currency_symbols_nc), Star(Space), number_capture(2),
          Star(Space), Opt(multiplier_capture(3))>>)

\* None, where an int is expected (amounts are never negative)
NoneInt == -1

\* None, where a str is expected (a captured currency is never empty)
NoneStr == <<>>

RECURSIVE DigitsValue(_, _)

\* the value of the first n characters of ds, all digits
DigitsValue(ds, n) ==
    IF n = 0 THEN 0 ELSE 10 * DigitsValue(ds, n - 1) + DigitVal(ds[n])

\* float(cs) as [whole, frac] with frac in hundredths; NoFloat when float()
\* raises ValueError
NoFloat == [whole |-> NoneInt, frac |-> 0]

Float100(cs) ==
    LET dots == {i \in 1..Len(cs) : cs[i] = "."}
        n == IF dots = {} THEN Len(cs) ELSE (CHOOSE i \in dots : TRUE) - 1
        frac == IF dots = {} THEN <<>> ELSE SubSeq(cs, n + 2, Len(cs))
    IN IF /\ Cardinality(dots) <= 1
          /\ Len(frac) <= 2
          /\ n + Len(frac) >= 1
          /\ \A i \in 1..Len(cs) : cs[i] \in DigitChars \cup {"."}
       THEN [whole |-> DigitsValue(cs, n),
             frac |-> IF Len(frac) = 0 THEN 0
                      ELSE IF Len(frac) = 1 THEN 10 * DigitVal(frac[1])
                      ELSE 10 * DigitVal(frac[1]) + DigitVal(frac[2])]
       ELSE NoFloat

\* str.strip()
RECURSIVE Strip(_)
Strip(s) ==
    IF s # <<>> /\ s[1] \in SpaceChars THEN Strip(Tail(s))
    ELSE IF s # <<>> /\ s[Len(s)] \in SpaceChars THEN Strip(SubSeq(s, 1, Len(s) - 1))
    ELSE s

\* re.sub(currency_symbols_nc|',', '', num_str)
RECURSIVE DropSymbolsAndCommas(_)
DropSymbolsAndCommas(s) ==
    IF s = <<>> THEN <<>>
    ELSE IF s[1] \in {"$", "€", "£", ","} THEN DropSymbolsAndCommas(Tail(s))
    ELSE <<s[1]>> \o DropSymbolsAndCommas(Tail(s))

\* the multiplier of clean_and_convert
Multiplier(multi_lower) ==
    IF multi_lower = <<"k">> \/ multi_lower = <<"t","h","o","u","s","a","n","d">>
    THEN 1000
    ELSE IF multi_lower = <<"m","i","l","l","i","o","n">> THEN 1000000
    ELSE 1

\* int(value * multiplier), NoneInt where float() raised
Scaled(value, multiplier) ==
    IF value = NoFloat THEN NoneInt
    ELSE value.whole * multiplier + (value.frac * multiplier) \div 100

clean_and_convert(num_str, multiplier_str) ==
    Scaled(Float100(Strip(DropSymbolsAndCommas(num_str))),
           IF multiplier_str = NoneStr THEN 1 ELSE Multiplier(Lower(multiplier_str)))

\* what a call of extract_amount gives its caller
\* StrAmount: the string f"{found_currency}{found_amount}"; sep tells whether the
\* digits are written with thousands separators (never by extract_amount)
StrAmount(cur, n) == [kind |-> "str", cur |-> cur, val |-> n, sep |-> FALSE]
\* IntAmount: the int found_amount, with found_currency beside it in the tuple
IntAmount(n, cur) == [kind |-> "int", cur |-> cur, val |-> n, sep |-> FALSE]
\* (None, None)
NoAmount == [kind |-> "none", cur |-> NoneStr, val |-> NoneInt, sep |-> FALSE]
\* an exception leaves the function
Raised == [kind |-> "raise", cur |-> NoneStr, val |-> NoneInt, sep |-> FALSE]
NotCalled == [kind |-> "pending", cur |-> NoneStr, val |-> NoneInt, sep |-> FALSE]

\* m.group(n), None for a group that took no part
GroupOrNone(s, m, n) == IF HasGroup(m, n) THEN GroupText(s, m, n) ELSE NoneStr

FirstTruthy(cs) ==
    IF \E i \in 1..Len(cs) : cs[i] # NoneStr
    THEN cs[CHOOSE i \in 1..Len(cs) :
               cs[i] # NoneStr /\ \A j \in 1..(i - 1) : cs[j] = NoneStr]
    ELSE <<"$">>

Max(a, b) == IF a >= b THEN a ELSE b

\* the mangled range branch returning its first number whichever is larger
MangledValuesFirst(val1, val2) ==
    IF val1 # NoneInt /\ val2 # NoneInt THEN StrAmount(<<"$">>, val1)
    ELSE NoAmount

\* 1. the mangled range branch: the amount returned, or NoAmount to go on
MangledValues(val1, val2) ==
    IF val1 # NoneInt /\ val2 # NoneInt THEN StrAmount(<<"$">>, Max(val1, val2))
    ELSE NoAmount

MangledMatch(s, mangled_match) ==
    IF ~mangled_match.found THEN NoAmount
    ELSE MangledValues(clean_and_convert(GroupText(s, mangled_match, 1),
                                         <<"t","h","o","u","s","a","n","d">>),
                       clean_and_convert(GroupText(s, mangled_match, 2),
                                         <<"t","h","o","u","s","a","n","d">>))

MangledRange(s) == MangledMatch(s, Search(mangled_range_pattern, s, FALSE))

\* 2. the standard range branch: the seven names are unpacked from groups()
StandardValues(val1, val2, cur1, cur2, cur3) ==
    IF val1 # NoneInt /\ val2 # NoneInt
    THEN StrAmount(FirstTruthy(<<IF val2 >= val1 THEN cur2 ELSE cur1, cur3, cur1, cur2>>),
                   Max(val1, val2))
    ELSE NoAmount

StandardGroups(num1, mult1, num2, mult2, cur1, cur2, cur3) ==
    StandardValues(clean_and_convert(num1, mult1),
                   clean_and_convert(num2, IF mult2 # NoneStr THEN mult2 ELSE mult1),
                   cur1, cur2, cur3)

StandardMatch(s, range_match) ==
    IF ~range_match.found THEN NoAmount
    ELSE IF NumGroups(standard_range_pattern) # 7 THEN Raised
    ELSE StandardGroups(GroupText(s, range_match, 2), GroupOrNone(s, range_match, 3),
                        GroupText(s, range_match, 5), GroupOrNone(s, range_match, 6),
                        GroupOrNone(s, range_match, 1), GroupOrNone(s, range_match, 4),
                        GroupOrNone(s, range_match, 7))

StandardRange(s) == StandardMatch(s, Search(standard_range_pattern, s, TRUE))

\* 3. the "up to" branch
UpToValues(val, cur1, cur2) ==
    IF val # NoneInt
    THEN StrAmount(IF cur1 # NoneStr THEN cur1
                   ELSE IF cur2 # NoneStr THEN cur2 ELSE <<"$">>, val)
    ELSE NoAmount

UpToMatch(s, upto_match) ==
    IF ~upto_match.found THEN NoAmount
    ELSE UpToValues(clean_and_convert(GroupText(s, upto_match, 2),
                                      GroupOrNone(s, upto_match, 3)),
                    GroupOrNone(s, upto_match, 1), GroupOrNone(s, upto_match, 4))

UpTo(s) == UpToMatch(s, Search(upto_pattern, s, TRUE))

\* the single amount branch without its sanity check on years
IsYearNever(val, num_str, mult_str) == FALSE

\* the sanity check on years: a bare number from 1990 to 2050 without a dot
IsYear(val, num_str, mult_str) ==
    /\ 1990 <= val /\ val <= 2050
    /\ mult_str = NoneStr
    /\ \A i \in 1..Len(num_str) : num_str[i] # "."

SingleValue(val, num_str, mult_str, currency) ==
    IF val # NoneInt /\ ~IsYear(val, num_str, mult_str)
    THEN <<[val |-> val, cur |-> currency]>>
    ELSE <<>>

SingleGroups(cur1, num_str, mult_str, cur2, isStrict) ==
    SingleValue(clean_and_convert(num_str, mult_str), num_str, mult_str,
                IF isStrict /\ cur1 = NoneStr THEN cur2 ELSE cur1)

\* one match of a single-amount pattern as (value, currency), or <<>> when dropped
SingleCandidate(s, m, isStrict) ==
    SingleGroups(GroupOrNone(s, m, 1), GroupText(s, m, 2), GroupOrNone(s, m, 3),
                 IF isStrict THEN GroupOrNone(s, m, 4) ELSE NoneStr, isStrict)

RECURSIVE SingleCandidates(_, _, _, _)
SingleCandidates(s, ms, i, isStrict) ==
    IF i > Len(ms) THEN <<>>
    ELSE SingleCandidate(s, ms[i], isStrict) \o SingleCandidates(s, ms, i + 1, isStrict)

\* the pattern's matches, skipped when groups() has not the expected length
SingleMatches(pattern, expected_groups, s, isStrict) ==
    IF NumGroups(pattern) # expected_groups THEN <<>>
    ELSE SingleCandidates(s, FindIter(pattern, s, TRUE), 1, isStrict)

\* potential_matches.sort(key=..., reverse=True)[0]: the first of the largest
BestMatch(potential_matches) ==
    CHOOSE i \in 1..Len(potential_matches) :
        /\ \A j \in 1..Len(potential_matches) :
              potential_matches[j].val <= potential_matches[i].val
        /\ \A j \in 1..(i - 1) : potential_matches[j].val < potential_matches[i].val

BestOf(best) == IntAmount(best.val, best.cur)

SingleBest(potential_matches) ==
    IF potential_matches = <<>> THEN NoAmount
    ELSE BestOf(potential_matches[BestMatch(potential_matches)])

\* 4. the single amount branch
SingleAmount(s) ==
    SingleBest(SingleMatches(strict_single_pattern, 4, s, TRUE)
               \o SingleMatches(code_single_pattern, 3, s, FALSE)
               \o SingleMatches(symbol_single_pattern, 3, s, FALSE))

\* "return" in a branch, else the next branch
OrElse(found, rest) == IF found # NoAmount THEN found ELSE rest

extract_amount(s) ==
    OrElse(MangledRange(s),
           OrElse(StandardRange(s), OrElse(UpTo(s), SingleAmount(s))))

----------------------------------------------------------------------------
(* Dates and deadline texts *)

Date(y, m, d) == [y |-> y, m |-> m, d |-> d]

\* None, where a datetime is expected
NoDate == Date(0, 0, 0)

deadline_cutoff == Date(2025, 4, 2)

\* a > b on dates
DateAfter(a, b) ==
    \/ a.y > b.y
    \/ a.y = b.y /\ a.m > b.m
    \/ a.y = b.y /\ a.m = b.m /\ a.d > b.d

\* None, where a deadline text is expected
NoDeadline == [d |-> 0, m |-> 0, yy |-> 0]

\* the empty string, where a deadline text is expected
EmptyDeadline == [d |-> 0, m |-> 0, yy |-> 1]

\* dt.strftime("%d-%b-%y"): the text keeps two digits of the year
strftime_dby(dt) == [d |-> dt.d, m |-> dt.m, yy |-> dt.y % 100]

\* datetime.strptime(s, "%d-%b-%y"): 00-68 is 2000-2068, 69-99 is 1969-1999
strptime_dby(s) == Date(IF s.yy <= 68 THEN 2000 + s.yy ELSE 1900 + s.yy, s.m, s.d)

----------------------------------------------------------------------------
(* Listings: what the site serves for one article of a listing page *)

\* None, where a str is expected in a record field
NoneTok == "None"

ListingUrls == {"L1"}

ExternalUrls == {"X1"}

Deadlines ==
    {Date(2025, 4, 1), Date(2025, 4, 2), Date(2025, 4, 3),
     Date(2069, 4, 3), Date(2125, 4, 2), Date(2125, 4, 3)}

\* a deadline search: whether a deadline text was found, and what parse_date
\* made of it (NoDate: parse_date returned None)
NotFound == [found |-> FALSE, dt |-> NoDate]

DeadlineFinds ==
    {NotFound, [found |-> TRUE, dt |-> NoDate]}
    \cup {[found |-> TRUE, dt |-> d] : d \in Deadlines}

\* detail texts: no amount, "$5k", "$5-$20"
SampleTexts == {<<>>, <<"$","5","k">>, <<"$","5","-","$","2","0">>}

Article(t, h, ok, c, x, dd, ld, txt) ==
    [has_title |-> t, href |-> h, detail_ok |-> ok, content |-> c, ext |-> x,
     ddl |-> dd, ldl |-> ld, txt |-> txt]

\* no h2.entry-title, or no link in it
UntitledArticles == {Article(FALSE, NoneTok, FALSE, FALSE, NoneTok, NotFound, NotFound, <<>>)}

\* the detail page cannot be fetched
UnfetchedArticles ==
    {Article(TRUE, h, FALSE, FALSE, NoneTok, NotFound, NotFound, <<>>) : h \in ListingUrls}

\* the detail page has no div.entry-content
EmptyArticles ==
    {Article(TRUE, h, TRUE, FALSE, NoneTok, NotFound, ld, <<>>) :
        h \in ListingUrls, ld \in DeadlineFinds}

\* the listing page's deadline is read only when the detail page gave none
FullArticles ==
    {Article(TRUE, h, TRUE, TRUE, x, dd, ld, txt) :
        h \in ListingUrls, x \in ExternalUrls \cup {NoneTok},
        dd \in DeadlineFinds, ld \in DeadlineFinds, txt \in SampleTexts}

Articles ==
    UntitledArticles \cup UnfetchedArticles \cup EmptyArticles
    \cup {a \in FullArticles : a.ddl.dt # NoDate => a.ldl = NotFound}

----------------------------------------------------------------------------
(* The handler of one article *)

\* the grant dictionary of a new candidate
NewGrant ==
    [deadline |-> NoDeadline, title |-> NoneTok, applicationUrl |-> NoneTok,
     organization |-> NoneTok, description |-> NoneTok, amount |-> NoAmount,
     status |-> "active", eligibility |-> "See official guidelines",
     category |-> "General"]

\* a candidate that carries the title and the URL of its listing
ListedGrant(art) ==
    [NewGrant EXCEPT !.title = "title", !.applicationUrl = art.href,
                     !.organization = "Unknown Organization"]

\* extract_organization(article, grant) raises: re.search on a title of None
ExtractOrganizationRaises(grant) == grant.title = NoneTok

\* the amount enrichment raises: extract_amount_from_text is no name of the script
AmountEnrichmentRaises(grant) == grant.amount = NoAmount

\* the comparison with >= in the place of >
DeadlinePassesOnCutoff(dt) == dt # NoDate /\ ~DateAfter(deadline_cutoff, dt)

\* deadline_dt and deadline_dt.date() > deadline_cutoff
DeadlinePasses(dt) == dt # NoDate /\ DateAfter(dt, deadline_cutoff)

\* the comparison with < in the place of <=
FinalDeadlineBefore(deadline) == DateAfter(deadline_cutoff, strptime_dby(deadline))

\* datetime.strptime(grant['deadline'], "%d-%b-%y").date() <= deadline_cutoff
FinalDeadlineStale(deadline) == ~DateAfter(strptime_dby(deadline), deadline_cutoff)

\* not all([title, applicationUrl, deadline])
Incomplete(grant) ==
    \/ grant.title \in {NoneTok, ""}
    \/ grant.applicationUrl \in {NoneTok, ""}
    \/ grant.deadline = NoDeadline

\* extract_amount of the sample texts
AmountOfText == [t \in SampleTexts |-> extract_amount(t)]

\* amount_with_currency, _ = extract_amount(...): the first of the pair
FirstOfPair(res) == IF res.kind = "int" THEN IntAmount(res.val, NoneStr) ELSE res

\* the membership test on the processed set in the place of the known-identity set
AlreadyProcessed(url) == url \in processed_urls

\* grant['applicationUrl'] in existing_grant_urls
AlreadyExists(url) == url \in existing_grant_urls

\* the registration left out
RegisterNothing(url) == existing_grant_urls

\* existing_grant_urls.add(grant['applicationUrl'])
RegisterUrl(url) == existing_grant_urls \cup {url}

\* processed_urls.add(url)
MarkProcessed(url) == processed_urls \cup {url}

HandlerResult(o, g, u, p, f) ==
    [outcome |-> o, grants |-> g, urls |-> u, processed |-> p, flag |-> f]

\* the handler left by continue or an except clause, with the processed set p
\* and the page flag f
Dropped(o, p, f) == HandlerResult(o, grants, existing_grant_urls, p, f)

\* the check against existing_grant_urls, the append and the registration
Deduped(grant) ==
    IF AlreadyExists(grant.applicationUrl)
    THEN Dropped("duplicate", MarkProcessed(grant.applicationUrl), TRUE)
    ELSE HandlerResult("accepted", Append(grants, grant),
                       RegisterUrl(grant.applicationUrl),
                       MarkProcessed(grant.applicationUrl), TRUE)

\* the description, the amount and the final applicationUrl are set; an
\* exception of extract_amount is caught by "except Exception"
Completed(grant, found, external_application_url) ==
    IF found.kind = "raise" THEN Dropped("amount_error", processed_urls, TRUE)
    ELSE Deduped([grant EXCEPT !.description = "raw text",
                               !.amount = FirstOfPair(found),
                               !.applicationUrl = external_application_url])

\* external_application_url
ExternalUrl(art, grant) ==
    IF art.content /\ art.ext # NoneTok THEN art.ext ELSE grant.applicationUrl

\* full_description_text
FullDescriptionText(art) == IF art.content THEN art.txt ELSE <<>>

\* the validation of the required fields and of the deadline text, reached
\* with page_has_valid_grants set
Validated(art, grant) ==
    IF Incomplete(grant) THEN Dropped("incomplete", processed_urls, TRUE)
    ELSE IF FinalDeadlineStale(grant.deadline)
    THEN Dropped("stale_final", processed_urls, TRUE)
    ELSE Completed(grant, AmountOfText[FullDescriptionText(art)], ExternalUrl(art, grant))

\* the fallback on the listing page, and the final deadline check
ListingDeadline(art, grant, deadline_dt_list) ==
    IF DeadlinePasses(deadline_dt_list)
    THEN Validated(art, [grant EXCEPT !.deadline = strftime_dby(deadline_dt_list)])
    ELSE IF deadline_dt_list # NoDate
    THEN Dropped("stale_listing", MarkProcessed(grant.applicationUrl),
                 page_has_valid_grants)
    ELSE Dropped("no_deadline", MarkProcessed(grant.applicationUrl),
                 page_has_valid_grants)

\* the deadline of the detail page
DetailDeadline(art, grant, deadline_dt) ==
    IF DeadlinePasses(deadline_dt)
    THEN Validated(art, [grant EXCEPT !.deadline = strftime_dby(deadline_dt)])
    ELSE IF deadline_dt # NoDate
    THEN Dropped("stale", MarkProcessed(grant.applicationUrl), page_has_valid_grants)
    ELSE ListingDeadline(art, grant, IF art.ldl.found THEN art.ldl.dt ELSE NoDate)

\* from the detail fetch to the end of the handler
Stages(art, grant) ==
    IF ~art.detail_ok
    THEN Dropped("http_error", processed_urls, page_has_valid_grants)
    ELSE DetailDeadline(art, grant,
                        IF art.content /\ art.ddl.found THEN art.ddl.dt ELSE NoDate)

\* the body of "for article in articles"
Handler(art) ==
    IF ~art.has_title
    THEN Dropped("no_title", processed_urls, page_has_valid_grants)
    ELSE IF ExtractOrganizationRaises(NewGrant) \/ AmountEnrichmentRaises(NewGrant)
    THEN Dropped("error", processed_urls, page_has_valid_grants)
    ELSE Stages(art, NewGrant)

\* the same body for a candidate that carries its listing's title and URL
ListedHandler(art) ==
    IF ~art.has_title
    THEN Dropped("no_title", processed_urls, page_has_valid_grants)
    ELSE Stages(art, ListedGrant(art))

----------------------------------------------------------------------------
(* Saving *)

\* clean_text on the text values of the model: "raw text" stands for a text
\* with typographic quotes, dashes or runs of white space
clean_text(t) == IF t = "raw text" THEN "text" ELSE t

\* a float read from the file, val being its value in tenths (55 is 5.5)
FloatAmount(tenths) == [kind |-> "float", cur |-> NoneStr, val |-> tenths, sep |-> FALSE]

\* the string of a symbol and a number with one decimal, val in tenths, its
\* whole part in groups of three ("$1,234.5")
DecimalAmount(cur, tenths) == [kind |-> "dec", cur |-> cur, val |-> tenths, sep |-> TRUE]

\* f"{value:,.0f}" of a value with one decimal: to the nearest integer, a half
\* to the even neighbour
RoundHalfEven(tenths) ==
    LET whole == tenths \div 10
        rest == tenths % 10
    IN IF rest < 5 \/ (rest = 5 /\ whole % 2 = 0) THEN whole ELSE whole + 1

\* bool(grant['amount'])
AmountTruthy(a) == a.kind \in {"str", "dec"} \/ (a.kind \in {"int", "float"} /\ a.val # 0)

\* clean_amount_value: an int becomes "$" and the digits in groups of three, a
\* float "$" and its repr in groups of three; a string of digits becomes "$" and
\* the digits in groups of three; a string that starts with a symbol is
\* rewritten with its number rounded to an integer, in groups of three; any
\* other string is returned as it is
clean_amount_value(a) ==
    IF a.kind = "float"
    THEN DecimalAmount(<<"$">>, a.val)
    ELSE IF a.kind = "int" \/ (a.kind = "str" /\ a.cur = NoneStr)
    THEN [kind |-> "str", cur |-> <<"$">>, val |-> a.val, sep |-> TRUE]
    ELSE IF a.kind = "dec" /\ a.cur[1] \in {"$", "£", "€"}
    THEN [kind |-> "str", cur |-> a.cur, val |-> RoundHalfEven(a.val), sep |-> TRUE]
    ELSE IF a.kind = "str" /\ a.cur[1] \in {"$", "£", "€"}
    THEN [a EXCEPT !.sep = TRUE]
    ELSE a

\* a key that a record read from the file does not have
Absent == "absent"

\* the default of a text field that is missing or None
OrEmpty(v) == IF v \in {NoneTok, Absent} THEN "" ELSE v

\* the default of the organization: "Unknown Organization" for a missing key,
\* "" for a key that holds None
OrganizationDefault(v) ==
    IF v = Absent THEN "Unknown Organization" ELSE IF v = NoneTok THEN "" ELSE v

\* "Ensure all required fields exist"
FillDefaults(g) ==
    [deadline |-> IF g.deadline = NoDeadline THEN EmptyDeadline ELSE g.deadline,
     title |-> OrEmpty(g.title),
     applicationUrl |-> OrEmpty(g.applicationUrl),
     organization |-> OrganizationDefault(g.organization),
     description |-> OrEmpty(g.description),
     amount |-> g.amount,
     status |-> OrEmpty(g.status),
     eligibility |-> OrEmpty(g.eligibility),
     category |-> OrEmpty(g.category)]

\* "Clean text fields" and "Clean amount field"
CleanFields(g) ==
    [g EXCEPT !.title = clean_text(@), !.description = clean_text(@),
              !.eligibility = clean_text(@),
              !.amount = IF AmountTruthy(@) THEN clean_amount_value(@) ELSE @]

\* the clean-up of one grant before the file is written
SaveRecord(g) == CleanFields(FillDefaults(g))

\* the clean-up calls clean_text or clean_amount_value for this grant
NeedsCleaning(g) ==
    \/ OrEmpty(g.title) # ""
    \/ OrEmpty(g.description) # ""
    \/ OrEmpty(g.eligibility) # ""
    \/ AmountTruthy(g.amount)

----------------------------------------------------------------------------
(* The LC_TIME locale *)

\* original_locale before parse_date has assigned it
NotSaved == <<"not saved">>

\* the locale of a process that has not called setlocale for LC_TIME
LocaleC == "C"

\* the locales parse_date tries, in the order of its loop
Langs == <<"en_US.UTF-8", "fr_FR.UTF-8", "es_ES.UTF-8">>

\* locale.getlocale(locale.LC_TIME): (language code, encoding)
getlocale(name) ==
    IF name = LocaleC THEN <<NoneTok, NoneTok>>
    ELSE IF name = Langs[1] THEN <<"en_US", "UTF-8">>
    ELSE IF name = Langs[2] THEN <<"fr_FR", "UTF-8">>
    ELSE <<"es_ES", "UTF-8">>

\* the name setlocale builds from a (language code, encoding) pair
build_localename(localetuple) ==
    IF localetuple[1] = NoneTok THEN LocaleC
    ELSE IF localetuple = <<"en_US", "UTF-8">> THEN Langs[1]
    ELSE IF localetuple = <<"fr_FR", "UTF-8">> THEN Langs[2]
    ELSE Langs[3]

\* the script sets no locale before its first call of parse_date
LocaleAtStart ==
    /\ lc_time = LocaleC
    /\ original_locale = NotSaved
    /\ lc_before = LocaleC
    /\ calls = 0

\* the characters of a title without a name or a keyword in it
PlainTitle == <<"t", "i", "t", "l", "e">>

\* update_mongodb has not been called, and the title "title" is a plain one
SideAtStart ==
    /\ collection = <<>>
    /\ existing_titles = {}
    /\ title_chars = PlainTitle

----------------------------------------------------------------------------
(* The script *)

\* range(1, 11)
LastPage == 10

\* the most articles a listing page holds
MaxArticles == 2

\* the most records the file holds when the script starts
MaxStored == 1

\* a record of the file, as a run of the script wrote it
StoredRecord(url) ==
    SaveRecord([NewGrant EXCEPT !.deadline = strftime_dby(Date(2025, 4, 3)),
                                !.title = "title", !.applicationUrl = url,
                                !.organization = "Unknown Organization",
                                !.description = "raw text"])

StoredUrls == {"L1", "X1"}

FinalUrls == ListingUrls \cup ExternalUrls

RECURSIVE StoredLists(_)
\* the lists of at most n stored records, no two with the same applicationUrl
StoredLists(n) ==
    IF n = 0 THEN {<<>>}
    ELSE LET shorter == StoredLists(n - 1)
             longer == {Append(l, StoredRecord(u)) : l \in shorter, u \in StoredUrls}
         IN shorter \cup
            {l \in longer : \A i, j \in 1..Len(l) :
                               i # j => l[i].applicationUrl # l[j].applicationUrl}

\* the file at output_path: absent, not JSON, JSON but no list, or a list
Stores ==
    {[kind |-> k, items |-> <<>>] : k \in {"missing", "invalid", "notlist"}}
    \cup {[kind |-> "list", items |-> l] : l \in StoredLists(MaxStored)}

NoLast == [href |-> NoneTok, url |-> NoneTok, dt |-> NoDate, known |-> FALSE,
           again |-> FALSE, outcome |-> "none"]

NoneChecked == [u \in FinalUrls |-> 0]

Init ==
    /\ text = <<>>
    /\ result = NotCalled
    /\ store \in Stores
    /\ grants = <<>>
    /\ existing_grant_urls = {}
    /\ processed_urls = {}
    /\ page = 1
    /\ remaining = 0
    /\ page_has_valid_grants = FALSE
    /\ defined = FALSE
    /\ pc = "load"
    /\ last = NoLast
    /\ page_dated = FALSE
    /\ page_accepted = FALSE
    /\ checked = NoneChecked
    /\ LocaleAtStart
    /\ SideAtStart

\* the load without the except clauses for a file that json.load cannot read:
\* the exception ends the script
LoadExistingUncaught ==
    /\ pc = "load"
    /\ grants' = IF store.kind = "list" THEN store.items ELSE <<>>
    /\ existing_grant_urls' =
          IF store.kind = "list"
          THEN {store.items[i].applicationUrl : i \in 1..Len(store.items)}
          ELSE {}
    /\ store' = IF store.kind = "missing" THEN [kind |-> "list", items |-> <<>>] ELSE store
    /\ processed_urls' = {}
    /\ page' = 1
    /\ pc' = IF store.kind = "invalid" THEN "failed" ELSE "fetch"
    /\ UNCHANGED <<sideVars, localeVars, text, result, remaining, page_has_valid_grants, defined, last,
                   page_dated, page_accepted, checked>>

\* "Load existing grants"
LoadExisting ==
    /\ pc = "load"
    /\ grants' = IF store.kind = "list" THEN store.items ELSE <<>>
    /\ existing_grant_urls' =
          IF store.kind = "list"
          THEN {store.items[i].applicationUrl : i \in 1..Len(store.items)}
          ELSE {}
    /\ store' = IF store.kind = "missing" THEN [kind |-> "list", items |-> <<>>] ELSE store
    /\ processed_urls' = {}
    /\ page' = 1
    /\ pc' = "fetch"
    /\ UNCHANGED <<sideVars, localeVars, text, result, remaining, page_has_valid_grants, defined, last,
                   page_dated, page_accepted, checked>>

\* continue in "for page in range(1, 11)"
NextPage ==
    IF page = LastPage
    THEN pc' = "save" /\ page' = page
    ELSE pc' = "fetch" /\ page' = page + 1

FetchOutcomes == {"request_error", "rate_limited", "error", "no_articles", "articles"}

\* the head of the page loop: the listing page is fetched and parsed
FetchPage ==
    /\ pc = "fetch"
    /\ \E o \in FetchOutcomes, n \in 1..MaxArticles :
          IF o \in {"request_error", "error"}
          THEN NextPage /\ UNCHANGED <<remaining, page_has_valid_grants>>
          ELSE IF o \in {"rate_limited", "no_articles"}
          THEN pc' = "save" /\ UNCHANGED <<page, remaining, page_has_valid_grants>>
          ELSE pc' = "articles" /\ remaining' = n /\ page_has_valid_grants' = FALSE
               /\ page' = page
    /\ last' = NoLast
    /\ page_dated' = FALSE
    /\ page_accepted' = FALSE
    /\ UNCHANGED <<sideVars, localeVars, text, result, store, grants, existing_grant_urls, processed_urls,
                   defined, checked>>

\* the final applicationUrl the listing leads to
FinalUrl(art) ==
    IF art.detail_ok /\ art.content /\ art.ext # NoneTok THEN art.ext ELSE art.href

\* the deadline parse_date gives for the listing: the detail page's, else the
\* listing page's
ParsedDeadline(art) ==
    IF art.detail_ok /\ art.content /\ art.ddl.dt # NoDate THEN art.ddl.dt
    ELSE IF art.detail_ok THEN art.ldl.dt
    ELSE NoDate

AtMostTwo(n) == IF n >= 2 THEN 2 ELSE n

\* the count of candidates at the deduplication check
Counted(url, outcome) ==
    IF outcome \in {"accepted", "duplicate"}
    THEN [checked EXCEPT ![url] = AtMostTwo(@ + 1)]
    ELSE checked

\* the handler's result r for the article art becomes the state
Examined(art, r) ==
    /\ grants' = r.grants
    /\ existing_grant_urls' = r.urls
    /\ processed_urls' = r.processed
    /\ page_has_valid_grants' = r.flag
    /\ defined' = (defined \/ art.has_title)
    /\ last' = [href |-> art.href, url |-> FinalUrl(art), dt |-> ParsedDeadline(art),
                known |-> AlreadyExists(FinalUrl(art)),
                again |-> art.href \in processed_urls,
                outcome |-> r.outcome]
    /\ page_dated' = (page_dated \/ DateAfter(ParsedDeadline(art), deadline_cutoff))
    /\ page_accepted' = (page_accepted \/ r.outcome = "accepted")
    /\ checked' = Counted(FinalUrl(art), r.outcome)
    /\ remaining' = remaining - 1
    /\ UNCHANGED <<sideVars, localeVars, text, result, store, page, pc>>

\* one article of the page goes through the handler
ProcessArticle ==
    /\ pc = "articles"
    /\ remaining > 0
    /\ \E art \in Articles : Examined(art, Handler(art))

\* one article of the page goes through the handler, its candidate carrying
\* the title and the URL of the listing
ProcessListed ==
    /\ pc = "articles"
    /\ remaining > 0
    /\ \E art \in Articles : Examined(art, ListedHandler(art))

\* the end of the page without the break
EndPageNoBreak ==
    /\ pc = "articles"
    /\ remaining = 0
    /\ NextPage
    /\ UNCHANGED <<sideVars, localeVars, text, result, store, grants, existing_grant_urls, processed_urls,
                   remaining, page_has_valid_grants, defined, last, page_dated,
                   page_accepted, checked>>

\* the end of the page: "if not page_has_valid_grants: break"
EndPage ==
    /\ pc = "articles"
    /\ remaining = 0
    /\ IF ~page_has_valid_grants THEN pc' = "save" /\ page' = page ELSE NextPage
    /\ UNCHANGED <<sideVars, localeVars, text, result, store, grants, existing_grant_urls, processed_urls,
                   remaining, page_has_valid_grants, defined, last, page_dated,
                   page_accepted, checked>>

\* the clean-up raises NameError: clean_text and clean_amount_value are bound
\* by the handler of the first article that has a title
SaveRaises == ~defined /\ \E i \in 1..Len(grants) : NeedsCleaning(grants[i])

FirstRaising == CHOOSE i \in 1..Len(grants) :
                   NeedsCleaning(grants[i]) /\ \A j \in 1..(i - 1) : ~NeedsCleaning(grants[j])

\* the grants after a clean-up that raised at the grant of index k
CleanedUpTo(k) ==
    [i \in 1..Len(grants) |->
        IF i < k THEN SaveRecord(grants[i])
        ELSE IF i = k THEN FillDefaults(grants[i])
        ELSE grants[i]]

\* the clean-up of every grant and the rewrite of the file; an exception
\* (of the clean-up, or of the write when written is FALSE) is logged
SaveGrants ==
    /\ pc = "save"
    /\ \E written \in BOOLEAN :
          IF SaveRaises
          THEN grants' = CleanedUpTo(FirstRaising) /\ store' = store
          ELSE /\ grants' = [i \in 1..Len(grants) |-> SaveRecord(grants[i])]
               /\ store' = IF written THEN [kind |-> "list", items |-> grants'] ELSE store
    /\ pc' = "done"
    /\ UNCHANGED <<sideVars, localeVars, text, result, existing_grant_urls, processed_urls, page, remaining,
                   page_has_valid_grants, defined, last, page_dated, page_accepted,
                   checked>>

----------------------------------------------------------------------------
(* The update of the organizations after the save *)

\* the characters a title token stands for
TitleChars(t) ==
    IF t = "title" THEN title_chars
    ELSE IF t = "text" THEN <<"t", "e", "x", "t">>
    ELSE IF t = "raw text" THEN <<"r", "a", "w", " ", " ", "t", "e", "x", "t">>
    ELSE <<>>

\* the name extract_org_from_url makes of the domain of an absolute URL
NameOfDomain == "Name Of Domain"

\* extract_org_from_url: None for a URL without a second "/"
extract_org_from_url(url) == IF url = "" THEN NoneTok ELSE NameOfDomain

\* [\w\s&\-',.]
org_chars == CharSet(WordChars \cup SpaceChars \cup {"&", "-", "'", ",", "."})

\* the two org_patterns of the update
org_patterns ==
    <<Cat(<<Grp(1, Lazy(org_chars, 1, Many)),
            Alt(<<Lit(<<"'","s">>), Lit(<<"s","'">>), Lit(<<"s">>)>>),
            Lit(<<" ">>),
            Alt(<<Lit(<<"G","r","a","n","t">>), Lit(<<"A","w","a","r","d">>), Lit(<<"P","r","i","z","e">>), Lit(<<"P","r","o","g","r","a","m">>), Lit(<<"P","r","o","g","r","a","m","m","e">>), Lit(<<"I","n","i","t","i","a","t","i","v","e">>), Lit(<<"F","u","n","d">>)>>)>>),
      Cat(<<Alt(<<Lit(<<"b","y">>), Lit(<<"f","r","o","m">>), Lit(<<"s","p","o","n","s","o","r","e","d"," ","b","y">>), Lit(<<"o","f","f","e","r","e","d"," ","b","y">>), Lit(<<"f","r","o","m"," ","t","h","e">>), Lit(<<"b","y"," ","t","h","e">>)>>),
            Lit(<<" ">>),
            Grp(1, Rep(org_chars, 1, Many))>>)>>

\* 3 < len(potential_org) < 50, potential_org being group 1 without the white
\* space around it
ValidOrg(title, m) ==
    m.found /\ Len(Strip(GroupText(title, m, 1))) > 3
            /\ Len(Strip(GroupText(title, m, 1))) < 50

\* a pattern of org_patterns gives a name of a valid length
TitlePatternFound(title) ==
    \E p \in 1..Len(org_patterns) : ValidOrg(title, Search(org_patterns[p], title, FALSE))

\* the name a title pattern gave: group 1 of its match, stripped
PotentialOrg == "potential_org"

\* word in title
Contains(title, word) ==
    \E i \in 1..(Len(title) - Len(word) + 1) : SubSeq(title, i, i + Len(word) - 1) = word

\* ([\w\s&\-',.]+Foundation)
foundation_pattern == Grp(1, Cat(<<Rep(org_chars, 1, Many), Lit(<<"F","o","u","n","d","a","t","i","o","n">>)>>))

\* group 1 of foundation_match
FoundationMatch == "foundation_match"

\* "use a generic name based on the grant type", and the domain as the last
\* resort: a URL without a second "/" leaves the organization as it is
generic_name(title, url) ==
    IF Contains(title, <<"U","N">>) \/ Contains(title, <<"U","n","i","t","e","d"," ","N","a","t","i","o","n","s">>)
    THEN "United Nations"
    ELSE IF Contains(title, <<"U","N","E","S","C","O">>) THEN "UNESCO"
    ELSE IF Contains(title, <<"W","H","O">>) THEN "World Health Organization"
    ELSE IF Contains(title, <<"E","U">>) \/ Contains(title, <<"E","u","r","o","p","e","a","n"," ","U","n","i","o","n">>)
    THEN "European Union"
    ELSE IF Contains(title, <<"F","o","u","n","d","a","t","i","o","n">>)
    THEN IF Search(foundation_pattern, title, FALSE).found
         THEN FoundationMatch ELSE "Foundation Grant"
    ELSE IF Contains(title, <<"A","w","a","r","d">>) THEN "Award Program"
    ELSE IF Contains(title, <<"P","r","i","z","e">>) THEN "Prize Program"
    ELSE IF Contains(title, <<"S","c","h","o","l","a","r","s","h","i","p">>) THEN "Scholarship Program"
    ELSE IF Contains(title, <<"F","e","l","l","o","w","s","h","i","p">>) THEN "Fellowship Program"
    ELSE "Organization Not Found"

\* the organization the update gives a grant marked "Organization Not Found"
reconciled(g) ==
    IF extract_org_from_url(g.applicationUrl) # NoneTok
    THEN extract_org_from_url(g.applicationUrl)
    ELSE IF TitleChars(g.title) # <<>> /\ TitlePatternFound(TitleChars(g.title))
    THEN PotentialOrg
    ELSE generic_name(TitleChars(g.title), g.applicationUrl)

\* the update raises for this grant: no 'organization' key, or a marked grant
\* whose applicationUrl or title is missing or None
UpdateRaises(g) ==
    \/ g.organization = Absent
    \/ /\ g.organization = "Organization Not Found"
       /\ \/ g.applicationUrl \in {Absent, NoneTok}
          \/ g.applicationUrl = "" /\ g.title \in {Absent, NoneTok}

\* the number of grants the loop of the update goes through before it raises
RECURSIVE UpdatedCount(_)
UpdatedCount(k) ==
    IF k > Len(grants) THEN Len(grants)
    ELSE IF UpdateRaises(grants[k]) THEN k - 1
    ELSE UpdatedCount(k + 1)

\* "Update all grants with 'Organization Not Found'": the loop after the save,
\* on the list in memory; nothing is written after it, and an exception ends
\* the script
UpdateOrganizations ==
    /\ pc = "done"
    /\ grants' = [i \in 1..Len(grants) |->
                     IF i <= UpdatedCount(1) /\ grants[i].organization = "Organization Not Found"
                     THEN [grants[i] EXCEPT !.organization = reconciled(grants[i])]
                     ELSE grants[i]]
    /\ pc' = IF UpdatedCount(1) < Len(grants) THEN "failed" ELSE "end"
    /\ UNCHANGED <<sideVars, localeVars, text, result, store, existing_grant_urls,
                   processed_urls, page, remaining, page_has_valid_grants, defined,
                   last, page_dated, page_accepted, checked>>

Next ==
    LoadExisting \/ FetchPage \/ ProcessArticle \/ EndPage \/ SaveGrants
    \/ UpdateOrganizations

\* the script as it is written
Spec == Init /\ [][Next]_vars

NextStages ==
    LoadExisting \/ FetchPage \/ ProcessListed \/ EndPage \/ SaveGrants
    \/ UpdateOrganizations

\* the script with candidates that carry their listing's title and URL
SpecStages == Init /\ [][NextStages]_vars

----------------------------------------------------------------------------
(* extract_amount on its own *)

Pieces ==
    {<<"$">>, <<"U","S","D">>, <<" ">>, <<"-">>, <<" ","t","o"," ">>,
     <<"5">>, <<"2","0">>, <<"2","0","2","4">>, <<"2",",","0","0","0">>,
     <<"k">>, <<" ","k">>, <<"u","p"," ","t","o"," ">>}

\* the most pieces a text is made of
MaxPieces == 3

RECURSIVE TextsOf(_)
TextsOf(n) ==
    IF n = 0 THEN {<<>>}
    ELSE {p \o t : p \in Pieces, t \in TextsOf(n - 1)}

Texts == UNION {TextsOf(n) : n \in 0..MaxPieces}

InitAmount ==
    /\ text \in Texts
    /\ result = NotCalled
    /\ store = [kind |-> "missing", items |-> <<>>]
    /\ grants = <<>>
    /\ existing_grant_urls = {}
    /\ processed_urls = {}
    /\ page = 1
    /\ remaining = 0
    /\ page_has_valid_grants = FALSE
    /\ defined = FALSE
    /\ pc = "amount"
    /\ last = NoLast
    /\ page_dated = FALSE
    /\ page_accepted = FALSE
    /\ checked = NoneChecked
    /\ LocaleAtStart
    /\ SideAtStart

CallExtractAmount ==
    /\ pc = "amount"
    /\ result = NotCalled
    /\ result' = extract_amount(text)
    /\ UNCHANGED <<text, runVars>>

NextAmount == CallExtractAmount

SpecAmount == InitAmount /\ [][NextAmount]_vars

----------------------------------------------------------------------------
(* The organization of a candidate on its own *)

UnknownOrganization == <<"U","n","k","n","o","w","n"," ","O","r","g","a","n","i","z","a","t","i","o","n">>

OrganizationNotFound == <<"O","r","g","a","n","i","z","a","t","i","o","n"," ","N","o","t"," ","F","o","u","n","d">>

\* str.strip(chars)
RECURSIVE StripOf(_, _)
StripOf(s, chars) ==
    IF s # <<>> /\ s[1] \in chars THEN StripOf(Tail(s), chars)
    ELSE IF s # <<>> /\ s[Len(s)] \in chars THEN StripOf(SubSeq(s, 1, Len(s) - 1), chars)
    ELSE s

\* str.replace(a, b) for single characters
ReplaceChar(s, a, b) == [i \in 1..Len(s) |-> IF s[i] = a THEN b ELSE s[i]]

\* str.title(): a letter after a letter is lowered, any other letter raised
TitleCase(s) ==
    [i \in 1..Len(s) |->
        IF i > 1 /\ s[i - 1] \in Letters THEN LowerChar(s[i]) ELSE UpperChar(s[i])]

\* the replacements of typographic characters; in the texts of the model
\* "!" is a typographic single quote, "~" an en or em dash and "^" a
\* no-break space
Typographic(c) ==
    IF c = "!" THEN "'"
    ELSE IF c = "~" THEN "-"
    ELSE IF c = "^" THEN " "
    ELSE c

\* re.sub(r'\s+', ' ', s)
RECURSIVE CollapseSpace(_)
CollapseSpace(s) ==
    IF s = <<>> THEN <<>>
    ELSE IF s[1] \in SpaceChars
    THEN IF Len(s) > 1 /\ s[2] \in SpaceChars THEN CollapseSpace(Tail(s))
         ELSE <<" ">> \o CollapseSpace(Tail(s))
    ELSE <<s[1]>> \o CollapseSpace(Tail(s))

\* clean_text on a sequence of characters
clean_text_chars(s) ==
    IF s = <<>> THEN s
    ELSE Strip(CollapseSpace([i \in 1..Len(s) |-> Typographic(s[i])]))

\* s without the matches ms[k..], read from position from
RECURSIVE Without(_, _, _, _)
Without(s, ms, k, from) ==
    IF k > Len(ms) THEN SubSeq(s, from, Len(s))
    ELSE SubSeq(s, from, ms[k].start - 1) \o Without(s, ms, k + 1, ms[k].pos)

\* re.sub(pattern, "", s, flags=re.IGNORECASE)
SubEmpty(pattern, s) == Without(s, FindIter(pattern, s, TRUE), 1, 1)

\* (https?://|www\.)
scheme_pattern ==
    Alt(<<Cat(<<Lit(<<"h","t","t","p">>), Opt(Lit(<<"s">>)), Lit(<<":","/","/">>)>>),
          Lit(<<"w","w","w",".">>)>>)

\* \b(Trust|Foundation|Fund|Org(a?nization)?|Programme?)\b
generic_words_pattern ==
    Cat(<<WordB,
          Alt(<<Lit(<<"T","r","u","s","t">>),
                Lit(<<"F","o","u","n","d","a","t","i","o","n">>),
                Lit(<<"F","u","n","d">>),
                Cat(<<Lit(<<"O","r","g">>),
                      Opt(Cat(<<Opt(Lit(<<"a">>)),
                                Lit(<<"n","i","z","a","t","i","o","n">>)>>))>>),
                Cat(<<Lit(<<"P","r","o","g","r","a","m","m">>), Opt(Lit(<<"e">>))>>)>>),
          WordB>>)

\* the returns of extract_organization: a group of a title or description
\* pattern, the longest part of the URL's domain, the text of a metadata tag
FromPattern(org) == clean_text_chars(Strip(StripOf(org, {"'", "s"})))

FromDomain(org) == clean_text_chars(TitleCase(ReplaceChar(org, "-", " ")))

FromTag(tag_text) == clean_text_chars(Strip(tag_text))

extract_organization(at, found) ==
    IF at = "title" THEN FromPattern(found)
    ELSE IF at = "domain" THEN FromDomain(found)
    ELSE IF at = "tag" THEN FromTag(found)
    ELSE UnknownOrganization

\* "if too short after cleaning"
TooShort(organization) ==
    IF Len(organization) < 3 THEN UnknownOrganization ELSE organization

\* the cleaning of the organization name after extract_organization
CleanOrganization(organization) ==
    IF organization # <<>>
       /\ organization \notin {UnknownOrganization, OrganizationNotFound}
    THEN TooShort(StripOf(SubEmpty(generic_words_pattern,
                                   SubEmpty(scheme_pattern, organization)),
                          {" ", "-", "_", ".", "/"}))
    ELSE organization

OrgPieces ==
    {<<"s">>, <<"'">>, <<" ">>, <<"-">>, <<".">>, <<"x">>, <<"W","H","O">>,
     <<"F","u","n","d">>, <<"w","w","w",".">>}

\* the most pieces a found name is made of
MaxOrgPieces == 3

RECURSIVE NamesOf(_)
NamesOf(n) ==
    IF n = 0 THEN {<<>>}
    ELSE {p \o t : p \in OrgPieces, t \in NamesOf(n - 1)}

Names == UNION {NamesOf(n) : n \in 0..MaxOrgPieces}

\* what group 1 of a title pattern can hold: [A-Z][A-Za-z\s&'-]+ without case
GroupNames ==
    {n \in Names : /\ Len(n) >= 2
                   /\ n[1] \in Letters
                   /\ \A i \in 1..Len(n) : n[i] \in Letters \cup SpaceChars \cup {"&", "'", "-"}}

\* the parts of a domain ("a.b.c" split at the dots)
DomainNames ==
    {n \in Names : n # <<>> /\ \A i \in 1..Len(n) : n[i] \in Letters \cup DigitChars \cup {"-"}}

\* org_tag.text of a tag whose stripped text is not empty
TagNames == {n \in Names : Strip(n) # <<>>}

\* the return statement of extract_organization that is reached, and the text
\* it returns the cleaning of
OrgFound ==
    ({"title"} \X GroupNames) \cup ({"domain"} \X DomainNames)
        \cup ({"tag"} \X TagNames) \cup {<<"fallback", <<>> >>}

InitOrg ==
    /\ \E f \in OrgFound : pc = f[1] /\ text = f[2]
    /\ result = NotCalled
    /\ store = [kind |-> "missing", items |-> <<>>]
    /\ grants = <<>>
    /\ existing_grant_urls = {}
    /\ processed_urls = {}
    /\ page = 1
    /\ remaining = 0
    /\ page_has_valid_grants = FALSE
    /\ defined = FALSE
    /\ last = NoLast
    /\ page_dated = FALSE
    /\ page_accepted = FALSE
    /\ checked = NoneChecked
    /\ LocaleAtStart
    /\ SideAtStart

\* grant['organization'] = extract_organization(article, grant) and the
\* cleaning that follows; result is grant['organization'] afterwards
ResolveOrganization ==
    /\ pc \in {"title", "domain", "tag", "fallback"}
    /\ result = NotCalled
    /\ result' = CleanOrganization(extract_organization(pc, text))
    /\ pc' = "organization"
    /\ UNCHANGED <<sideVars, localeVars, text, store, grants, existing_grant_urls, processed_urls, page,
                   remaining, page_has_valid_grants, defined, last, page_dated,
                   page_accepted, checked>>

NextOrg == ResolveOrganization

SpecOrg == InitOrg /\ [][NextOrg]_vars

----------------------------------------------------------------------------
(* The save on its own *)

\* the organization of a record read from the file
LoadedOrganizations ==
    {Absent, NoneTok, "", "Unknown Organization", "Organization Not Found",
     "Some Organization"}

\* a record of a file that the script or another tool wrote
FileRecords ==
    {[NewGrant EXCEPT !.deadline = strftime_dby(Date(2025, 4, 3)),
                      !.applicationUrl = "L1",
                      !.title = t, !.organization = o, !.amount = a] :
        t \in {"title", "raw text", NoneTok},
        o \in LoadedOrganizations,
        a \in {NoAmount, StrAmount(<<"$">>, 5), IntAmount(5, NoneStr), FloatAmount(55)}}

\* the most records of grants at the save
MaxSaved == 1

RECURSIVE FileLists(_)
FileLists(n) ==
    IF n = 0 THEN {<<>>}
    ELSE FileLists(n - 1)
         \cup {Append(l, g) : l \in {k \in FileLists(n - 1) : Len(k) = n - 1},
                              g \in FileRecords}

\* the script after its page loop, grants being the records of the file
InitSave ==
    /\ grants \in FileLists(MaxSaved)
    /\ store = [kind |-> "list", items |-> grants]
    /\ existing_grant_urls = {grants[i].applicationUrl : i \in 1..Len(grants)}
    /\ defined \in BOOLEAN
    /\ pc = "save"
    /\ text = <<>>
    /\ result = NotCalled
    /\ processed_urls = {}
    /\ page = 1
    /\ remaining = 0
    /\ page_has_valid_grants = FALSE
    /\ last = NoLast
    /\ page_dated = FALSE
    /\ page_accepted = FALSE
    /\ checked = NoneChecked
    /\ LocaleAtStart
    /\ SideAtStart

NextSave == SaveGrants

SpecSave == InitSave /\ [][NextSave]_vars

----------------------------------------------------------------------------
(* The eligibility summary on its own *)

\* "See official guidelines", the default of grant['eligibility']
SeeOfficialGuidelines == <<"S","e","e"," ","o","f","f","i","c","i","a","l"," ","g","u","i","d","e","l","i","n","e","s">>

eligibility_keywords ==
    <<<<"E","l","i","g","i","b","i","l","i","t","y"," ","C","r","i","t","e","r","i","a">>,
      <<"W","h","o"," ","c","a","n"," ","a","p","p","l","y","?">>,
      <<"E","l","i","g","i","b","l","e"," ","A","p","p","l","i","c","a","n","t","s">>,
      <<"E","l","i","g","i","b","i","l","i","t","y">>>>

end_markers ==
    <<<<"F","u","n","d","i","n","g"," ","I","n","f","o","r","m","a","t","i","o","n">>,
      <<"H","o","w"," ","t","o"," ","A","p","p","l","y">>,
      <<"A","p","p","l","i","c","a","t","i","o","n"," ","P","r","o","c","e","s","s">>,
      <<"A","w","a","r","d"," ","I","n","f","o","r","m","a","t","i","o","n">>,
      <<"P","r","i","z","e"," ","I","n","f","o","r","m","a","t","i","o","n">>,
      <<"F","o","c","u","s"," ","A","r","e","a","s">>,
      <<"T","h","e","m","a","t","i","c"," ","A","r","e","a","s">>,
      <<"O","b","j","e","c","t","i","v","e","s">>,
      <<"B","e","n","e","f","i","t","s">>>>

\* the starts of the matches of r in s
MatchStarts(r, s, ic) == {i \in 1..(Len(s) + 1) : MatchFrom(r, s, i, ic).found}

\* pattern.search(s) for a long text: the match at the least start
SearchIn(r, s, ic) ==
    IF MatchStarts(r, s, ic) = {} THEN NoMatch
    ELSE MatchFrom(r, s, CHOOSE i \in MatchStarts(r, s, ic) :
                             \A j \in MatchStarts(r, s, ic) : i <= j, ic)

\* (?:^|[\s.:;])\s*(heading)\b
HeadingPattern(heading) ==
    Cat(<<Alt(<<LineStart, CharSet(SpaceChars \cup {".", ":", ";"})>>),
          Star(Space), Grp(1, Lit(heading)), WordB>>)

RECURSIVE KeywordFrom(_, _), KeywordOn(_, _, _)

\* the match of the first keyword of the list that the text has as a heading
KeywordFrom(s, i) ==
    IF i > Len(eligibility_keywords) THEN NoMatch
    ELSE KeywordOn(SearchIn(HeadingPattern(eligibility_keywords[i]), s, TRUE), s, i)

KeywordOn(m, s, i) == IF m.found THEN m ELSE KeywordFrom(s, i + 1)

\* re.sub(r'^[:\s]+', '', s)
RECURSIVE DropLeading(_)
DropLeading(s) ==
    IF s # <<>> /\ s[1] \in SpaceChars \cup {":"} THEN DropLeading(Tail(s)) ELSE s

\* min(end_pos, marker_match.start())
EarlierStart(m, end_pos) ==
    IF m.found /\ m.start - 1 < end_pos THEN m.start - 1 ELSE end_pos

RECURSIVE EndPos(_, _, _)
EndPos(eligibility_text, i, end_pos) ==
    IF i > Len(end_markers) THEN end_pos
    ELSE EndPos(eligibility_text, i + 1,
                EarlierStart(SearchIn(HeadingPattern(end_markers[i]), eligibility_text, TRUE),
                             end_pos))

\* eligibility_text[:end_pos].strip()
SegmentOf(eligibility_text) ==
    Strip(SubSeq(eligibility_text, 1, EndPos(eligibility_text, 1, Len(eligibility_text))))

\* the text after the keyword, up to the next heading
eligibility_text_segment(s, m) ==
    SegmentOf(DropLeading(Strip(SubSeq(s, m.caps[1][2], Len(s)))))

max_len == 300

\* s.rfind(c, 0, hi): the index from 0 of the last c before hi, or -1
RFind(s, c, hi) ==
    LET at == {i \in 1..Len(s) : i <= hi /\ s[i] = c}
    IN IF at = {} THEN -1 ELSE (CHOOSE i \in at : \A j \in at : j <= i) - 1

\* the cut at the last period wherever it stands
CutAtAnyPeriod(segment, cutoff_point) ==
    IF cutoff_point # -1
    THEN SubSeq(segment, 1, cutoff_point + 1)
    ELSE Strip(SubSeq(segment, 1, max_len)) \o <<".", ".", ".">>

\* the cut of a segment longer than max_len
CutAt(segment, cutoff_point) ==
    IF cutoff_point # -1 /\ 2 * cutoff_point > max_len
    THEN SubSeq(segment, 1, cutoff_point + 1)
    ELSE Strip(SubSeq(segment, 1, max_len)) \o <<".", ".", ".">>

\* the summary with a segment of 6 characters taken as too short
eligibility_summary_over_six(segment) ==
    IF Len(segment) > max_len THEN CutAt(segment, RFind(segment, ".", max_len))
    ELSE IF Len(segment) > 6 THEN segment
    ELSE SeeOfficialGuidelines

eligibility_summary(segment) ==
    IF Len(segment) > max_len THEN CutAt(segment, RFind(segment, ".", max_len))
    ELSE IF Len(segment) > 5 THEN segment
    ELSE SeeOfficialGuidelines

\* grant['eligibility'] after the extraction, m being the keyword's match
EligibilityOn(s, m) ==
    IF m.found THEN eligibility_summary(eligibility_text_segment(s, m))
    ELSE SeeOfficialGuidelines

Eligibility(full_description_text) ==
    EligibilityOn(full_description_text, KeywordFrom(full_description_text, 1))

\* n characters of running text with a period at dot and a blank at blank
Filler(n, dot, blank) ==
    [i \in 1..n |-> IF i = dot THEN "." ELSE IF i = blank THEN " " ELSE "a"]

\* how far past max_len the running texts go
MaxOver == 2

FillerLengths == {0, 5, 6} \cup {max_len + k : k \in 0..MaxOver}

\* the places of the period (0: none): around the middle and around max_len
FillerDots == {0, 151, 152, 300, 301}

FillerBlanks == {0, 153, 300}

Fillers ==
    {Filler(n, dot, blank) :
        n \in FillerLengths, dot \in FillerDots, blank \in FillerBlanks}

\* what stands before the running text
Openings ==
    {<<>>, <<"E","l","i","g","i","b","i","l","i","t","y",":"," ">>, <<"G","r","a","n","t","s","."," ","E","l","i","g","i","b","i","l","i","t","y"," ","C","r","i","t","e","r","i","a"," ">>}

\* what follows it
Closings == {<<>>, <<" ","H","o","w"," ","t","o"," ","A","p","p","l","y",":"," ","o","n","l","i","n","e">>}

\* the texts of a detail page
DetailTexts == {o \o f \o c : o \in Openings, f \in Fillers, c \in Closings}

InitEligibility ==
    /\ text \in DetailTexts
    /\ result = NotCalled
    /\ pc = "eligibility"
    /\ store = [kind |-> "missing", items |-> <<>>]
    /\ grants = <<>>
    /\ existing_grant_urls = {}
    /\ processed_urls = {}
    /\ page = 1
    /\ remaining = 0
    /\ page_has_valid_grants = FALSE
    /\ defined = FALSE
    /\ last = NoLast
    /\ page_dated = FALSE
    /\ page_accepted = FALSE
    /\ checked = NoneChecked
    /\ LocaleAtStart
    /\ SideAtStart

\* the extraction of the eligibility from the text of the detail page;
\* result is grant['eligibility'] afterwards
ExtractEligibility ==
    /\ pc = "eligibility"
    /\ result = NotCalled
    /\ result' = Eligibility(text)
    /\ pc' = "summarised"
    /\ UNCHANGED <<sideVars, localeVars, text, store, grants, existing_grant_urls, processed_urls, page,
                   remaining, page_has_valid_grants, defined, last, page_dated,
                   page_accepted, checked>>

NextEligibility == ExtractEligibility

SpecEligibility == InitEligibility /\ [][NextEligibility]_vars

----------------------------------------------------------------------------
(* parse_date on its own *)

\* the deadline texts given to parse_date
DateTexts ==
    {"03-Apr-2025", "3rd Apr 2025", "2025-04-03", "3 avr. 2025", "3 abr 2025",
     "April 3, 2025", "soon"}

\* the text after the ordinal suffixes, the zero-width characters and the
\* runs of white space are taken out
Cleaned(date_str) == IF date_str = "3rd Apr 2025" THEN "3 Apr 2025" ELSE date_str

\* the language of the month names of a cleaned text ("" when it has none)
MonthLanguage(cleaned) ==
    IF cleaned \in {"03-Apr-2025", "3 Apr 2025"} THEN "en"
    ELSE IF cleaned = "3 avr. 2025" THEN "fr"
    ELSE IF cleaned = "3 abr 2025" THEN "es"
    ELSE ""

\* the language of the month names of a locale
LocaleLanguage(name) ==
    IF name \in {LocaleC, Langs[1]} THEN "en"
    ELSE IF name = Langs[2] THEN "fr" ELSE "es"

\* datetime.strptime(cleaned, fmt) for a fmt of the list of formats returns
\* under the locale name
ParsesStandard(cleaned, name) ==
    \/ cleaned = "2025-04-03"
    \/ MonthLanguage(cleaned) = LocaleLanguage(name)

\* datetime.strptime(cleaned, "%d %b %Y") returns under the locale name
ParsesDayMonthYear(cleaned, name) ==
    /\ cleaned \in {"3 Apr 2025", "3 avr. 2025", "3 abr 2025"}
    /\ MonthLanguage(cleaned) = LocaleLanguage(name)

\* dateutil's parse(cleaned) returns
ParsesDateutil(cleaned) == cleaned \in {"03-Apr-2025", "3 Apr 2025", "2025-04-03", "April 3, 2025"}

\* the calls of parse_date in one run
MaxCalls == 2

InitDate ==
    /\ LocaleAtStart
    /\ SideAtStart
    /\ pc = "call"
    /\ text = ""
    /\ result = NoDate
    /\ store = [kind |-> "missing", items |-> <<>>]
    /\ grants = <<>>
    /\ existing_grant_urls = {}
    /\ processed_urls = {}
    /\ page = 1
    /\ remaining = 0
    /\ page_has_valid_grants = FALSE
    /\ defined = FALSE
    /\ last = NoLast
    /\ page_dated = FALSE
    /\ page_accepted = FALSE
    /\ checked = NoneChecked

\* what parse_date does not touch
dateFrame == <<store, grants, existing_grant_urls, processed_urls, page, remaining,
               page_has_valid_grants, defined, last, page_dated, page_accepted,
               checked, sideVars>>

\* parse_date(date_str) is called
CallParseDate ==
    /\ pc \in {"call", "returned"}
    /\ calls < MaxCalls
    /\ \E date_str \in DateTexts : text' = date_str
    /\ calls' = calls + 1
    /\ lc_before' = lc_time
    /\ original_locale' = NotSaved
    /\ result' = NoDate
    /\ pc' = "formats"
    /\ UNCHANGED <<lc_time, dateFrame>>

\* "Try standard formats first"
StandardFormats ==
    /\ pc = "formats"
    /\ IF ParsesStandard(Cleaned(text), lc_time)
       THEN result' = Date(2025, 4, 3) /\ pc' = "returned" /\ original_locale' = original_locale
       ELSE result' = result /\ pc' = "try_1" /\ original_locale' = getlocale(lc_time)
    /\ UNCHANGED <<text, lc_time, lc_before, calls, dateFrame>>

\* the keeping of lc_time by the finally clause left out
NotRestored(current, saved) == current

\* locale.setlocale(locale.LC_TIME, original_locale)
Restored(current, saved) == build_localename(saved)

\* one round of "for lang in ['en_US', 'fr_FR', 'es_ES']": setlocale raises
\* when the locale is not installed; after a strptime that returned, the
\* locale is set back and the finally clause is entered with the date
TryLang(n) ==
    /\ pc = IF n = 1 THEN "try_1" ELSE IF n = 2 THEN "try_2" ELSE "try_3"
    /\ \E installed \in BOOLEAN :
          IF ~installed
          THEN lc_time' = lc_time /\ result' = result
               /\ pc' = (IF n = 1 THEN "try_2" ELSE IF n = 2 THEN "try_3" ELSE "finally")
          ELSE IF ParsesDayMonthYear(Cleaned(text), Langs[n])
          THEN lc_time' = build_localename(original_locale)
               /\ result' = Date(2025, 4, 3) /\ pc' = "finally_return"
          ELSE lc_time' = Langs[n] /\ result' = result
               /\ pc' = (IF n = 1 THEN "try_2" ELSE IF n = 2 THEN "try_3" ELSE "finally")
    /\ UNCHANGED <<text, original_locale, lc_before, calls, dateFrame>>

\* the finally clause, on the way out with a date or after the loop
Finally ==
    /\ pc \in {"finally", "finally_return"}
    /\ lc_time' = Restored(lc_time, original_locale)
    /\ pc' = IF pc = "finally_return" THEN "returned" ELSE "dateutil"
    /\ UNCHANGED <<text, result, original_locale, lc_before, calls, dateFrame>>

\* "Final fallback to dateutil": the import or the parse may raise, and None
\* is returned then
Fallback ==
    /\ pc = "dateutil"
    /\ \E importable \in BOOLEAN :
          result' = IF importable /\ ParsesDateutil(Cleaned(text))
                    THEN Date(2025, 4, 3) ELSE NoDate
    /\ pc' = "returned"
    /\ UNCHANGED <<text, localeVars, dateFrame>>

NextDate ==
    \/ CallParseDate
    \/ StandardFormats
    \/ \E n \in 1..3 : TryLang(n)
    \/ Finally
    \/ Fallback

SpecDate == InitDate /\ [][NextDate]_vars

----------------------------------------------------------------------------
(* Properties *)

\* the script is between the load and the save: the file is as it was loaded
Running == pc \in {"fetch", "articles", "save"}

\* the number of records loaded from the file
LoadedCount == IF store.kind = "list" THEN Len(store.items) ELSE 0

\* the positions of the records of a list that have the applicationUrl u
Holding(records, u) == {i \in 1..Len(records) : records[i].applicationUrl = u}

\* the positions of the records appended in this run that have the applicationUrl u
AppendedWith(u) == {i \in Holding(grants, u) : i > LoadedCount}

\* the applicationUrl u came with the file
Loaded(u) == \E i \in Holding(grants, u) : i <= LoadedCount

NoTwoAlike(records) ==
    \A i, j \in 1..Len(records) :
        i # j => records[i].applicationUrl # records[j].applicationUrl

\* the deadline text of a record, read as the script reads it
AllAfterCutoff(records) ==
    \A i \in 1..Len(records) :
        DateAfter(strptime_dby(records[i].deadline), deadline_cutoff)

\* the handler ended at or after the validation of the required fields
PastDeadlineStages ==
    last.outcome \in {"incomplete", "stale_final", "amount_error", "duplicate", "accepted"}

C5_WellFormedAccepted ==
    (/\ last.href # NoneTok
     /\ DateAfter(last.dt, deadline_cutoff)
     /\ ~last.known)
        => last.outcome = "accepted"

C9_AmountHasCurrency ==
    result.kind \in {"str", "int"} =>
        /\ result.kind = "str"
        /\ result.cur # NoneStr
        /\ result.val >= 0

\* C10: no call of extract_amount ends with an exception.
C10_NeverRaises == result.kind # "raise"

\* the call of extract_amount has ended
Called == pc = "amount" /\ result # NotCalled

\* a currency symbol or code stands somewhere in s
HasCurrencyMarker(s) ==
    Search(Alt(<<currency_symbols_nc, currency_codes_nc>>), s, TRUE).found

\* int(s) of a string of digits
IntOf(digits) == DigitsValue(digits, Len(digits))

\* a number as written times the multiplier named by a multiplier word, the
\* white space around the word set aside
TimesWord(num_str, word) ==
    clean_and_convert(num_str, NoneStr)
        * (IF word = NoneStr THEN 1 ELSE Multiplier(Lower(Strip(word))))

\* the larger bound of a standard range match, the second bound taking the
\* multiplier of the first when it has none
LargerBound(s, m) ==
    Max(TimesWord(GroupText(s, m, 2), GroupOrNone(s, m, 3)),
        TimesWord(GroupText(s, m, 5),
                  IF HasGroup(m, 6) THEN GroupText(s, m, 6) ELSE GroupOrNone(s, m, 3)))

\* the standard range match m decides: no mangled range stands in s
StandardDecides(s, m) ==
    m.found /\ ~Search(mangled_range_pattern, s, FALSE).found

\* res is the currency and the larger bound of the standard range match m
IsLargerBound(s, m, res) ==
    res.kind = "str" /\ res.cur # NoneStr /\ res.val = LargerBound(s, m)

\* C11: for a text with a standard range (both bounds present) and no mangled
\* range, extract_amount returns a currency followed by the larger of the two
\* bounds, the second bound inheriting the first bound's multiplier.
C11_StandardRangeLargerBound ==
    Called /\ StandardDecides(text, Search(standard_range_pattern, text, TRUE)) =>
        IsLargerBound(text, Search(standard_range_pattern, text, TRUE), result)

\* the "up to" match m, with a multiplier word, decides: no range stands in s
UpToWordDecides(s, m) ==
    /\ m.found
    /\ HasGroup(m, 3)
    /\ ~Search(mangled_range_pattern, s, FALSE).found
    /\ ~Search(standard_range_pattern, s, TRUE).found

\* res is the currency of the "up to" match m (default "$") and its number
\* times the multiplier its word names
IsUpToScaled(s, m, res) ==
    res = StrAmount(IF HasGroup(m, 1) THEN GroupText(s, m, 1)
                    ELSE IF HasGroup(m, 4) THEN GroupText(s, m, 4) ELSE <<"$">>,
                    TimesWord(GroupText(s, m, 2), GroupText(s, m, 3)))

\* C12: for an "up to" phrase whose number is followed by a multiplier word,
\* with or without white space between them, extract_amount returns the
\* captured currency (default "$") followed by the number times 1,000 or
\* 1,000,000.
C12_UpToMultiplied ==
    Called /\ UpToWordDecides(text, Search(upto_pattern, text, TRUE)) =>
        IsUpToScaled(text, Search(upto_pattern, text, TRUE), result)

\* res is "$" followed by the larger number of the pair m times 1,000
IsPairInThousands(s, m, res) ==
    res = StrAmount(<<"$">>,
                    Max(IntOf(GroupText(s, m, 1)), IntOf(GroupText(s, m, 2))) * 1000)

\* the first dash-separated pair of 1-3 digit numbers of a text without a
\* currency marker
BarePair(s, m) == m.found /\ ~HasCurrencyMarker(s)

FragmentPair(s, m) ==
    /\ m.found
    /\ \/ m.start > 1 /\ s[m.start - 1] \in {"$", "€", "£", ","}
       \/ m.pos <= Len(s) /\ s[m.pos] = ","

\* res is what the mangled range rule computes from the fragments m
FiredOnFragments(s, m, res) == FragmentPair(s, m) /\ res = MangledMatch(s, m)

\* C14: for a range whose bounds carry a currency symbol or thousands
\* separators, with a dash directly between digit groups, the amount returned
\* is not the one the mangled range rule computes from fragments of the
\* formatted numbers.
C14_MangledOnlyOnBareNumbers ==
    Called => ~FiredOnFragments(text, Search(mangled_range_pattern, text, FALSE), result)

\* the matches the single amount branch goes through
SingleAmountMatches(s) ==
    FindIter(strict_single_pattern, s, TRUE)
        \o FindIter(code_single_pattern, s, TRUE)
        \o FindIter(symbol_single_pattern, s, TRUE)

\* the number of the match m has a decimal point or a multiplier word
ScaledOrDecimal(s, m) ==
    HasGroup(m, 3) \/ \E i \in 1..Len(GroupText(s, m, 2)) : GroupText(s, m, 2)[i] = "."

\* the value val comes from one of the matches ms with a multiplier or a
\* decimal point
FromScaledOrDecimal(s, ms, val) ==
    \E i \in 1..Len(ms) :
        /\ clean_and_convert(GroupText(s, ms[i], 2), GroupOrNone(s, ms[i], 3)) = val
        /\ ScaledOrDecimal(s, ms[i])

\* one of the matches ms is a bare number from 1990 to 2050
HasBareYear(s, ms) ==
    \E i \in 1..Len(ms) :
        /\ clean_and_convert(GroupText(s, ms[i], 2), GroupOrNone(s, ms[i], 3)) \in 1990..2050
        /\ ~ScaledOrDecimal(s, ms[i])

C16_OrganizationLongEnough ==
    pc = "organization" => result = UnknownOrganization \/ Len(result) >= 3

\* the clean-up went through and the file holds the cleaned list
Written == pc = "done" /\ store.kind = "list" /\ store.items = grants

\* C17: in the written collection the organization of every record is
\* non-empty; a record whose organization was missing or null at the save is
\* written with "Unknown Organization".
C17_WrittenOrganizationNonEmpty ==
    Written =>
        \A i \in 1..Len(store.items) :
            store.items[i].organization \notin {"", NoneTok, Absent}

\* the eligibility was extracted from the text of the detail page
Summarised == pc = "summarised"

\* res for a segment of at most max_len characters
ShortSegmentCase(segment, res) ==
    /\ Len(segment) <= 5 => res = SeeOfficialGuidelines
    /\ Len(segment) \in 6..max_len => res = segment

\* res for a text whose first keyword match is m
KeywordCase(s, m, res) ==
    IF m.found THEN ShortSegmentCase(eligibility_text_segment(s, m), res)
    ELSE res = SeeOfficialGuidelines

\* C18: the eligibility is exactly "See official guidelines" when the text of
\* the detail page has none of the keywords as a heading and when the segment
\* after the heading has at most 5 characters; a segment of 6 to 300
\* characters is returned unchanged.
C18_DefaultOrSegment ==
    Summarised => KeywordCase(text, KeywordFrom(text, 1), result)

\* a heading is followed by a segment of exactly n characters, which is res
SegmentReturned(s, m, n, res) ==
    /\ m.found
    /\ Len(eligibility_text_segment(s, m)) = n
    /\ res = eligibility_text_segment(s, m)

\* segments of 6 characters and of max_len characters are returned
\* unchanged after a heading
C18_Witness ==
    /\ Summarised
    /\ \/ SegmentReturned(text, KeywordFrom(text, 1), 6, result)
       \/ SegmentReturned(text, KeywordFrom(text, 1), max_len, result)
    /\ result # SeeOfficialGuidelines

\* the places, counted from 1, of the periods among the first max_len characters
PeriodsBefore(segment) ==
    {i \in 1..Len(segment) : i <= max_len /\ segment[i] = "."}

LastPeriod(segment) ==
    CHOOSE i \in PeriodsBefore(segment) : \A j \in PeriodsBefore(segment) : j <= i

\* the last period before position max_len lies past the middle (positions
\* counted from 0, as the script counts them)
PeriodPastMiddle(segment) ==
    PeriodsBefore(segment) # {} /\ 2 * (LastPeriod(segment) - 1) > max_len

Ellipsis == <<".", ".", ".">>

\* res is the summary of a long segment as the claim gives it
LongSegmentCut(segment, res) ==
    Len(segment) > max_len =>
        /\ res = IF PeriodPastMiddle(segment)
                 THEN SubSeq(segment, 1, LastPeriod(segment))
                 ELSE SubSeq(segment, 1, max_len) \o Ellipsis
        /\ Len(res) <= max_len + 3

\* the same with the white space at the end of the first max_len characters
\* left out
LongSegmentCutStripped(segment, res) ==
    Len(segment) > max_len =>
        /\ res = IF PeriodPastMiddle(segment)
                 THEN SubSeq(segment, 1, LastPeriod(segment))
                 ELSE Strip(SubSeq(segment, 1, max_len)) \o Ellipsis
        /\ Len(res) <= max_len + 3

LongCase(s, m, res) ==
    m.found => LongSegmentCut(eligibility_text_segment(s, m), res)

LongCaseStripped(s, m, res) ==
    m.found => LongSegmentCutStripped(eligibility_text_segment(s, m), res)

\* C19 as the claim states it: for a segment of more than 300 characters the
\* summary ends at the last period before position 300 when that period lies
\* past position 150, and is the first 300 characters followed by "..."
\* otherwise; it never has more than 303 characters.
C19_LongSegmentCut ==
    Summarised => LongCase(text, KeywordFrom(text, 1), result)

\* C19, amended: for a segment of more than 300 characters the summary ends
\* at the last period before position 300 when that period lies past position
\* 150, and is otherwise the first 300 characters, without the white space
\* at their end, followed by "..."; it never has more than 303 characters.
C19_LongSegmentCutStripped ==
    Summarised => LongCaseStripped(text, KeywordFrom(text, 1), result)

\* a long segment with its last period at position 150 or before: res is the
\* forced cut, shorter than max_len + 3 because a blank was left out
ForcedCutShorter(s, m, res) ==
    /\ m.found
    /\ Len(eligibility_text_segment(s, m)) > max_len
    /\ PeriodsBefore(eligibility_text_segment(s, m)) # {}
    /\ ~PeriodPastMiddle(eligibility_text_segment(s, m))
    /\ Len(res) < max_len + 3
    /\ SubSeq(res, Len(res) - 2, Len(res)) = Ellipsis

C19_Witness == Summarised /\ ForcedCutShorter(text, KeywordFrom(text, 1), result)

\* C20: when parse_date has returned, with a date or with None, the LC_TIME
\* locale is the one that was set before the call, whichever way the call
\* went through the locale-specific step.
C20_LocaleRestored == pc = "returned" => lc_time = lc_before

\* parse_date returned the date that only its fr_FR round could read
C20_Witness ==
    /\ pc = "returned"
    /\ text = "3 avr. 2025"
    /\ original_locale # NotSaved
    /\ result # NoDate
    /\ lc_time = lc_before

----------------------------------------------------------------------------
(* update_mongodb on its own *)

\* the titles of the records of grants.json
FileTitles == {"A", "B", "C"}

\* the most records grants.json holds
MaxFile == 2

\* the record at place i of grants.json: records differ in their
\* applicationUrl, which is the i-th URL
FileGrant(t, i) == [title |-> t, applicationUrl |-> i]

RECURSIVE TitleLists(_)
\* the lists of at most n titles
TitleLists(n) ==
    IF n = 0 THEN {<<>>}
    ELSE TitleLists(n - 1)
         \cup {Append(l, t) : l \in {k \in TitleLists(n - 1) : Len(k) = n - 1},
                              t \in FileTitles}

\* a document: the fields of the record and last_updated, "now" for the time
\* of this call and "earlier" for that of a call before
Document(grant, when) ==
    [title |-> grant.title, applicationUrl |-> grant.applicationUrl,
     last_updated |-> when]

\* the collections an earlier call left: empty, or one document
EarlierCollections ==
    {<<>>} \cup {<<Document(FileGrant(t, 0), "earlier")>> : t \in FileTitles}

\* update_mongodb is called: grants.json holds grants, the database collection
InitDatabase ==
    /\ grants \in {[i \in 1..Len(l) |-> FileGrant(l[i], i)] : l \in TitleLists(MaxFile)}
    /\ collection \in EarlierCollections
    /\ existing_titles = {}
    /\ title_chars = PlainTitle
    /\ pc = "connect"
    /\ remaining = 0
    /\ store = [kind |-> "list", items |-> <<>>]
    /\ text = <<>>
    /\ result = NotCalled
    /\ existing_grant_urls = {}
    /\ processed_urls = {}
    /\ page = 1
    /\ page_has_valid_grants = FALSE
    /\ defined = FALSE
    /\ last = NoLast
    /\ page_dated = FALSE
    /\ page_accepted = FALSE
    /\ checked = NoneChecked
    /\ LocaleAtStart

databaseFrame == <<localeVars, title_chars, text, result, store, grants, existing_grant_urls,
                   processed_urls, page, page_has_valid_grants, defined, last,
                   page_dated, page_accepted, checked>>

\* the connection, the ping and the load of grants.json, then the titles of
\* the collection are read; a failure is logged and the call returns False
Connect ==
    /\ pc = "connect"
    /\ \E ok \in BOOLEAN :
          IF ok
          THEN /\ existing_titles' = {collection[i].title : i \in 1..Len(collection)}
               /\ remaining' = Len(grants)
               /\ pc' = "grants"
          ELSE /\ pc' = "returned False"
               /\ UNCHANGED <<existing_titles, remaining>>
    /\ UNCHANGED <<collection, databaseFrame>>

\* collection.update_one({'title': title}, {'$set': grant}): the first document
\* with the title takes the fields of grant
update_one(docs, grant) ==
    LET first == CHOOSE i \in 1..Len(docs) :
                    /\ docs[i].title = grant.title
                    /\ \A j \in 1..(i - 1) : docs[j].title # grant.title
    IN [docs EXCEPT ![first] = Document(grant, "now")]

\* the next record of the loop "for grant in grants": inserted when its title is
\* not in existing_titles, else written over the document of that title; an
\* exception of the driver is logged and the call returns False
ProcessGrant ==
    /\ pc = "grants"
    /\ remaining > 0
    /\ LET grant == grants[Len(grants) - remaining + 1]
       IN \E ok \in BOOLEAN :
             IF ~ok
             THEN pc' = "returned False" /\ UNCHANGED <<collection, remaining>>
             ELSE /\ collection' =
                        IF grant.title \notin existing_titles
                        THEN Append(collection, Document(grant, "now"))
                        ELSE update_one(collection, grant)
                  /\ remaining' = remaining - 1
                  /\ pc' = pc
    /\ UNCHANGED <<existing_titles, databaseFrame>>

\* the loop is over: return True
ReturnTrue ==
    /\ pc = "grants"
    /\ remaining = 0
    /\ pc' = "returned True"
    /\ UNCHANGED <<collection, existing_titles, remaining, databaseFrame>>

NextDatabase == Connect \/ ProcessGrant \/ ReturnTrue

SpecDatabase == InitDatabase /\ [][NextDatabase]_vars

\* the documents of the collection that have the title t
WithTitle(t) == {i \in 1..Len(collection) : collection[i].title = t}

\* C25: when update_mongodb has gone through grants.json, the collection holds
\* at most one document for each title of the file.
C25_OneDocumentPerTitle ==
    pc = "returned True" =>
        \A i \in 1..Len(grants) : Cardinality(WithTitle(grants[i].title)) <= 1

\* the fields of a record other than its organization
OtherFields == {"deadline", "title", "applicationUrl", "description", "amount",
                "status", "eligibility", "category"}

\* the written record w holds what the loaded record g held in every field
\* other than the organization
SameButOrganization(g, w) == \A f \in OtherFields : w[f] = g[f]

\* C21: when the save ends a run that loaded records from the file, every
\* record of the file keeps the value of each of its fields other than the
\* organization in the list the save leaves in the file.
C21_LoadedFieldsKept ==
    [][pc = "save" =>
          \A i \in 1..Len(store.items) :
              SameButOrganization(store.items[i], store'.items[i])]_vars

----------------------------------------------------------------------------
(* A run on a file that a run wrote *)

\* the lists an earlier run's save leaves in the file: every record has been
\* through the clean-up of the save
WrittenLists == {[i \in 1..Len(l) |-> SaveRecord(l[i])] : l \in FileLists(MaxSaved)}

\* the script before its load, the file being one that a run of it wrote
InitRerun ==
    /\ store \in {[kind |-> "list", items |-> l] : l \in WrittenLists}
    /\ text = <<>>
    /\ result = NotCalled
    /\ grants = <<>>
    /\ existing_grant_urls = {}
    /\ processed_urls = {}
    /\ page = 1
    /\ remaining = 0
    /\ page_has_valid_grants = FALSE
    /\ defined = FALSE
    /\ pc = "load"
    /\ last = NoLast
    /\ page_dated = FALSE
    /\ page_accepted = FALSE
    /\ checked = NoneChecked
    /\ LocaleAtStart
    /\ SideAtStart

SpecRerun == InitRerun /\ [][Next]_vars

\* C22: the save of a run that read a file written by a run of the script and
\* appended no record leaves in the file the list that was read, every record
\* equal field for field.
C22_RewriteReproduces ==
    [][(pc = "save" /\ Len(grants) = Len(store.items)) => store' = store]_vars

\* the file at output_path holds no list: it is missing, is not JSON, or is
\* JSON of another type
NoListStored == store.kind \in {"missing", "invalid", "notlist"}

----------------------------------------------------------------------------
(* The save and the update of the organizations on their own *)

TitlePieces ==
    {<<"U","N","E","S","C","O">>,
     <<"W","H","O">>,
     <<"E","U">>,
     <<"U","N">>,
     <<"U","n","i","t","e","d"," ","N","a","t","i","o","n","s">>,
     <<"E","u","r","o","p","e","a","n"," ","U","n","i","o","n">>,
     <<" ","P","r","i","z","e">>,
     <<" ","F","o","u","n","d","a","t","i","o","n">>,
     <<"K","o","f","i","'","s">>,
     <<" ","b","y"," ">>,
     <<"C","a","r","e">>,
     <<" ","A","w","a","r","d">>}

\* the most pieces of a title
MaxTitlePieces == 2

RECURSIVE TitlesOf(_)
TitlesOf(n) ==
    IF n = 0 THEN {<<>>} ELSE {t \o x : t \in TitlesOf(n - 1), x \in TitlePieces}

\* the titles of the records: one piece or more
UpdateTitles == UNION {TitlesOf(n) : n \in 1..MaxTitlePieces}

\* a record of the file: marked "Organization Not Found" or not, with an
\* absolute applicationUrl or an empty one
MarkedRecords ==
    {[NewGrant EXCEPT !.deadline = strftime_dby(Date(2025, 4, 3)),
                      !.title = "title", !.description = "",
                      !.applicationUrl = u, !.organization = o] :
        u \in {"L1", ""},
        o \in {"Organization Not Found", "Some Organization"}}

RECURSIVE MarkedLists(_)
MarkedLists(n) ==
    IF n = 0 THEN {<<>>}
    ELSE MarkedLists(n - 1)
         \cup {Append(l, g) : l \in {k \in MarkedLists(n - 1) : Len(k) = n - 1},
                              g \in MarkedRecords}

\* the script after its page loop, grants being the records of the file
InitUpdate ==
    /\ title_chars \in UpdateTitles
    /\ grants \in MarkedLists(MaxSaved)
    /\ store = [kind |-> "list", items |-> grants]
    /\ existing_grant_urls = {grants[i].applicationUrl : i \in 1..Len(grants)}
    /\ defined \in BOOLEAN
    /\ pc = "save"
    /\ collection = <<>>
    /\ existing_titles = {}
    /\ text = <<>>
    /\ result = NotCalled
    /\ processed_urls = {}
    /\ page = 1
    /\ remaining = 0
    /\ page_has_valid_grants = FALSE
    /\ last = NoLast
    /\ page_dated = FALSE
    /\ page_accepted = FALSE
    /\ checked = NoneChecked
    /\ LocaleAtStart

NextUpdate == SaveGrants \/ UpdateOrganizations

SpecUpdate == InitUpdate /\ [][NextUpdate]_vars

\* the title has the keyword as a word of its own
Mentions(title, word) == Search(Cat(<<WordB, Lit(word), WordB>>), title, FALSE).found

\* the labels of the institutions a title names
InstitutionLabels(title) ==
    (IF Mentions(title, <<"U","N","E","S","C","O">>) THEN {"UNESCO"} ELSE {})
    \cup (IF Mentions(title, <<"W","H","O">>) THEN {"World Health Organization"} ELSE {})
    \cup (IF Mentions(title, <<"E","U">>) \/ Mentions(title, <<"E","u","r","o","p","e","a","n"," ","U","n","i","o","n">>)
          THEN {"European Union"} ELSE {})
    \cup (IF Mentions(title, <<"U","N">>) \/ Mentions(title, <<"U","n","i","t","e","d"," ","N","a","t","i","o","n","s">>)
          THEN {"United Nations"} ELSE {})

\* the update comes to the scan of the title for this grant: it is marked, its
\* URL gives no name and no title pattern gives one
ScanReached(g) ==
    /\ g.organization = "Organization Not Found"
    /\ extract_org_from_url(g.applicationUrl) = NoneTok
    /\ ~TitlePatternFound(TitleChars(g.title))

\* C27: a grant that comes to the scan of the title and whose title names one
\* institution (UNESCO, WHO, EU or European Union, UN or United Nations) gets
\* the label of that institution.
C27_KeywordLabels ==
    [][pc = "done" =>
          \A i \in 1..Len(grants) :
              (ScanReached(grants[i])
               /\ Cardinality(InstitutionLabels(TitleChars(grants[i].title))) = 1)
              => grants'[i].organization \in InstitutionLabels(TitleChars(grants[i].title))]_vars

\* C28: an organization that the update changes is the organization of that
\* record in the list the run wrote to the file.
C28_UpdateIsWritten ==
    [][pc = "done" =>
          \A i \in 1..Len(grants) :
              grants'[i].organization # grants[i].organization
              => /\ i <= Len(store'.items)
                 /\ store'.items[i].organization = grants'[i].organization]_vars

====
